---- MODULE Spec2Model ----
(***************************************************************************)
(* Feature scheduler and lifecycle state machine of the projector backend. *)
(*                                                                         *)
(*   PlanningManager (src/backend/planning_manager.py): one plan's         *)
(*   features, its pending / active / completed lists and its status.      *)
(*   ProjectManager (src/backend/project_manager.py): the admission pass   *)
(*   start_implementation and the completion handler handle_pr_merged.     *)
(*                                                                         *)
(* Feature names are the integers 1..n in insertion order (the order of    *)
(* the keys of the features dict).  The started_at / completed_at keys of  *)
(* a feature and the updated_at key of a step are kept as "has the key     *)
(* been stamped"; the plan's own updated_at keeps the clock value.         *)
(***************************************************************************)
EXTENDS Integers, Sequences, FiniteSets, TLC

VARIABLES
    now,                    \* the clock read by time.time() / datetime.now()
    plans,                  \* PlanningManager.plans: plan id -> plan
    plan_locks,             \* PlanningManager.plan_locks: ids that have a lock
    result,                 \* what the last PlanningManager call returned
    project,                \* the Project object of ProjectManager.projects
    active_implementations, \* ProjectManager.active_implementations[project_id]
    project_progress,       \* ProjectManager.project_progress[project_id]
    impl_result,            \* what the last ProjectManager call returned
    gateway_failed,         \* the features for which a gateway call failed
                            \* during the last ProjectManager call
    calls,                  \* the locals of each thread inside start_implementation
    running,                \* ThreadPool.running
    task_queue,             \* ThreadPool.task_queue: the tasks waiting, oldest first
    unfinished_tasks,       \* the queue's count of tasks put and not yet task_done
    workers,                \* where each worker thread stands in _worker
    submit_calls,           \* where the submit call of each task stands
    shutdown_call,          \* where the shutdown call stands
    executed_tasks,         \* the tasks a worker has called
    failed_tasks,           \* the tasks that raised
    discarded_tasks,        \* the tasks shutdown took off the queue
    pool_order,             \* the tasks in the order they were put, taken and called
    wait_call,              \* where a wait_completion call stands and what it returned
    db_projects,            \* ProjectDatabase.projects: project id -> Project
    db_file,                \* the database file projects_db.json
    db_result,              \* what the last ProjectDatabase call returned
    args,                   \* the arguments of a function call
    returned,               \* what the function call returned
    plan_calls,             \* the locals of each thread inside a PlanningManager call
    plan_threads,           \* the threads that call create_plan and the plan operations
                            \* at once: their locals and the lock objects
    db_threads,             \* the threads inside save_project and delete_project at once
    slack_threads,          \* the threads that handle Slack messages at once, and
                            \* what they handled
    concurrent_status       \* handle_concurrent_planning: the status dict its threads
                            \* share, and their locals

vars == <<now, plans, plan_locks, result, project, active_implementations,
          project_progress, impl_result, gateway_failed, calls, running,
          task_queue, unfinished_tasks, workers, submit_calls, shutdown_call,
          executed_tasks, failed_tasks, discarded_tasks, pool_order, wait_call,
          db_projects, db_file, db_result, args, returned, plan_calls,
          plan_threads, db_threads, slack_threads, concurrent_status>>

planVars == <<plans, plan_locks, result>>
projVars == <<project, active_implementations, project_progress, impl_result,
              gateway_failed>>
callVars == <<calls>>
poolVars == <<running, task_queue, unfinished_tasks, workers, submit_calls,
              shutdown_call, executed_tasks, failed_tasks, discarded_tasks,
              pool_order>>
waitVars == <<wait_call>>
dbVars == <<db_projects, db_file, db_result>>
fnVars == <<args, returned>>
planCallVars == <<plan_calls>>
threadVars == <<plan_threads, db_threads, slack_threads, concurrent_status>>
otherVars == <<waitVars, dbVars, fnVars, planCallVars, threadVars>>

----------------------------------------------------------------------------
(* Bounds *)

NumPlanFeatures == 2
NumSteps == 1
MaxClock == 1
NumFeatures == 3
MaxMerges == 1

----------------------------------------------------------------------------
(* Python list helpers *)

InList(s, x) == \E i \in DOMAIN s : s[i] = x

FirstIndex(s, x) == CHOOSE i \in DOMAIN s : s[i] = x /\ \A j \in 1..(i - 1) : s[j] # x

\* list.remove(x): drops the first occurrence of x
ListRemove(s, x) ==
    LET i == FirstIndex(s, x)
    IN  [j \in 1..(Len(s) - 1) |-> IF j < i THEN s[j] ELSE s[j + 1]]

\* "if x in s: s.remove(x)"
RemoveIfPresent(s, x) == IF InList(s, x) THEN ListRemove(s, x) ELSE s

Count(s, x) == Cardinality({i \in DOMAIN s : s[i] = x})

----------------------------------------------------------------------------
(* PlanningManager *)

PlanFeatureNames == 1..NumPlanFeatures

\* feature_name arguments: every name a plan can hold and one it never holds
FeatureArgs == 0..NumPlanFeatures

\* plan_id arguments: "plan_<int(time.time())>", named by the integer
PlanIdArgs == 0..MaxClock

\* status arguments of update_feature_status
StatusArgs == {"not_started", "in_progress", "completed", "blocked"}

StepStatusArgs == {"in_progress", "completed"}

StepIndexArgs == 0..NumSteps

\* Dependencies lines of the plan text: none, or each feature on its predecessor
DependencyChoices ==
    { [f \in PlanFeatureNames |-> {}],
      [f \in PlanFeatureNames |-> IF f > 1 THEN {f - 1} ELSE {}] }

NewStep == [status |-> "not_started", updated_at |-> FALSE]

NewFeature(deps) ==
    [status |-> "not_started",
     dependencies |-> deps,
     steps |-> [i \in 1..NumSteps |-> NewStep],
     started_at |-> FALSE,
     completed_at |-> FALSE]

\* features dict built by _extract_features_from_plan for n features
ExtractFeatures(n, deps) ==
    [f \in 1..n |-> NewFeature(deps[f] \cap (1..n))]

\* the plan dict built by create_plan
NewPlan(features, t) ==
    [features |-> features,
     status |-> "planning",
     created_at |-> t,
     updated_at |-> t,
     active_features |-> <<>>,
     completed_features |-> <<>>,
     pending_features |-> [i \in 1..Cardinality(DOMAIN features) |-> i]]

\* what a call returns: {"success": True, ...} or {"error": ...}
Ok(op, f) == [success |-> TRUE, error |-> ""]
Err(op, f, e) == [success |-> FALSE, error |-> e]

\* "for dep in dependencies: if dep not in plan['completed_features']: return error"
DependenciesCompleted(plan, feature_name) ==
    \A dep \in plan.features[feature_name].dependencies :
        InList(plan.completed_features, dep)

\* "len(plan['completed_features']) == len(plan['features'])"
AllFeaturesCompleted(plan) ==
    Len(plan.completed_features) = Cardinality(DOMAIN plan.features)

\* the error start_feature returns inside the lock, "" when it goes ahead
StartFeatureError(plan, feature_name) ==
    IF feature_name \notin DOMAIN plan.features THEN "not_found"
    ELSE IF InList(plan.active_features, feature_name) THEN "already_active"
    ELSE IF InList(plan.completed_features, feature_name) THEN "already_completed"
    ELSE IF ~DependenciesCompleted(plan, feature_name) THEN "dependency_not_completed"
    ELSE ""

\* the plan after a start_feature that goes ahead
StartFeaturePlan(plan, feature_name, t) ==
    [plan EXCEPT
        !.pending_features = RemoveIfPresent(@, feature_name),
        !.active_features = Append(@, feature_name),
        !.features[feature_name].status = "in_progress",
        !.features[feature_name].started_at = TRUE,
        !.updated_at = t]

\* StartFeature with the dependency check made after the feature has moved
StartFeatureCheckedAfterMove(plan_id, feature_name) ==
    /\ IF plan_id \notin DOMAIN plans
       THEN /\ result' = Err("start_feature", feature_name, "plan_not_found")
            /\ UNCHANGED plans
       ELSE LET plan == plans[plan_id]
                e == StartFeatureError(plan, feature_name)
            IN  IF e \in {"not_found", "already_active", "already_completed"}
                THEN /\ result' = Err("start_feature", feature_name, e)
                     /\ UNCHANGED plans
                ELSE /\ plans' = [plans EXCEPT ![plan_id] = StartFeaturePlan(plan, feature_name, now)]
                     /\ result' = IF e # "" THEN Err("start_feature", feature_name, e)
                                  ELSE Ok("start_feature", feature_name)
    /\ UNCHANGED <<now, plan_locks, projVars>>
    /\ UNCHANGED <<callVars, poolVars>>
    /\ UNCHANGED otherVars

StartFeature(plan_id, feature_name) ==
    /\ IF plan_id \notin DOMAIN plans
       THEN /\ result' = Err("start_feature", feature_name, "plan_not_found")
            /\ UNCHANGED plans
       ELSE LET plan == plans[plan_id]
                e == StartFeatureError(plan, feature_name)
            IN  IF e # ""
                THEN /\ result' = Err("start_feature", feature_name, e)
                     /\ UNCHANGED plans
                ELSE /\ plans' = [plans EXCEPT ![plan_id] = StartFeaturePlan(plan, feature_name, now)]
                     /\ result' = Ok("start_feature", feature_name)
    /\ UNCHANGED <<now, plan_locks, projVars>>
    /\ UNCHANGED <<callVars, poolVars>>
    /\ UNCHANGED otherVars

\* CompleteFeatureError without the check of completed_features
CompleteFeatureErrorNoCompletedCheck(plan, feature_name) ==
    IF feature_name \notin DOMAIN plan.features THEN "not_found" ELSE ""

\* the error complete_feature returns inside the lock, "" when it goes ahead
CompleteFeatureError(plan, feature_name) ==
    IF feature_name \notin DOMAIN plan.features THEN "not_found"
    ELSE IF InList(plan.completed_features, feature_name) THEN "already_completed"
    ELSE ""

\* the plan after a complete_feature that goes ahead
CompleteFeaturePlan(plan, feature_name, t) ==
    LET moved == [plan EXCEPT
                    !.active_features = RemoveIfPresent(@, feature_name),
                    !.completed_features = Append(@, feature_name),
                    !.features[feature_name].status = "completed",
                    !.features[feature_name].completed_at = TRUE,
                    !.updated_at = t]
    IN  IF AllFeaturesCompleted(moved)
        THEN [moved EXCEPT !.status = "completed"]
        ELSE moved

CompleteFeature(plan_id, feature_name) ==
    /\ IF plan_id \notin DOMAIN plans
       THEN /\ result' = Err("complete_feature", feature_name, "plan_not_found")
            /\ UNCHANGED plans
       ELSE LET plan == plans[plan_id]
                e == CompleteFeatureError(plan, feature_name)
            IN  IF e # ""
                THEN /\ result' = Err("complete_feature", feature_name, e)
                     /\ UNCHANGED plans
                ELSE /\ plans' = [plans EXCEPT ![plan_id] = CompleteFeaturePlan(plan, feature_name, now)]
                     /\ result' = Ok("complete_feature", feature_name)
    /\ UNCHANGED <<now, plan_locks, projVars>>
    /\ UNCHANGED <<callVars, poolVars>>
    /\ UNCHANGED otherVars

\* "Update feature lists based on status": the three list branches
MoveFeature(plan, feature_name, status, t) ==
    IF status = "completed" /\ ~InList(plan.completed_features, feature_name)
    THEN [plan EXCEPT
            !.active_features = RemoveIfPresent(@, feature_name),
            !.pending_features = RemoveIfPresent(@, feature_name),
            !.completed_features = Append(@, feature_name),
            !.features[feature_name].completed_at = TRUE]
    ELSE IF status = "in_progress" /\ ~InList(plan.active_features, feature_name)
    THEN [plan EXCEPT
            !.pending_features = RemoveIfPresent(@, feature_name),
            !.completed_features = RemoveIfPresent(@, feature_name),
            !.active_features = Append(@, feature_name),
            !.features[feature_name].started_at = TRUE]
    ELSE IF status = "not_started" /\ ~InList(plan.pending_features, feature_name)
    THEN [plan EXCEPT
            !.active_features = RemoveIfPresent(@, feature_name),
            !.completed_features = RemoveIfPresent(@, feature_name),
            !.pending_features = Append(@, feature_name)]
    ELSE plan

\* PlanStatusAfterUpdate without the branch that reopens a completed plan
PlanStatusAfterUpdateNoReopen(plan, status) ==
    IF status = "completed" /\ AllFeaturesCompleted(plan) THEN "completed"
    ELSE plan.status

\* "Check if all features are completed": the plan status after the move
PlanStatusAfterUpdate(plan, status) ==
    IF status = "completed" /\ AllFeaturesCompleted(plan) THEN "completed"
    ELSE IF plan.status = "completed"
            /\ Len(plan.completed_features) < Cardinality(DOMAIN plan.features)
    THEN "in_progress"
    ELSE plan.status

\* the plan after an update_feature_status on a feature of the plan
UpdateFeatureStatusPlan(plan, feature_name, status, t) ==
    LET set == [plan EXCEPT !.features[feature_name].status = status]
        moved == [MoveFeature(set, feature_name, status, t) EXCEPT !.updated_at = t]
    IN  [moved EXCEPT !.status = PlanStatusAfterUpdate(moved, status)]

UpdateFeatureStatus(plan_id, feature_name, status) ==
    /\ IF plan_id \notin DOMAIN plans
       THEN /\ result' = Err("update_feature_status", feature_name, "plan_not_found")
            /\ UNCHANGED plans
       ELSE LET plan == plans[plan_id]
            IN  IF feature_name \notin DOMAIN plan.features
                THEN /\ result' = Err("update_feature_status", feature_name, "not_found")
                     /\ UNCHANGED plans
                ELSE /\ plans' = [plans EXCEPT ![plan_id] =
                                    UpdateFeatureStatusPlan(plan, feature_name, status, now)]
                     /\ result' = Ok("update_feature_status", feature_name)
    /\ UNCHANGED <<now, plan_locks, projVars>>
    /\ UNCHANGED <<callVars, poolVars>>
    /\ UNCHANGED otherVars

\* "all(s['status'] == 'completed' for s in feature['steps'])"
AllStepsCompleted(feature) ==
    \A i \in DOMAIN feature.steps : feature.steps[i].status = "completed"

\* the plan after an update_step_status on a step of the plan; step_index is
\* the Python index, the step is steps[step_index + 1] here
UpdateStepStatusPlan(plan, feature_name, step_index, status, t) ==
    LET stepped == [plan EXCEPT
                      !.features[feature_name].steps[step_index + 1].status = status,
                      !.features[feature_name].steps[step_index + 1].updated_at = TRUE]
        feature == stepped.features[feature_name]
    IN  IF AllStepsCompleted(feature) /\ feature.status # "completed"
        THEN UpdateFeatureStatusPlan(stepped, feature_name, "completed", t)
        ELSE stepped

UpdateStepStatus(plan_id, feature_name, step_index, status) ==
    /\ IF plan_id \notin DOMAIN plans
       THEN /\ result' = Err("update_step_status", feature_name, "plan_not_found")
            /\ UNCHANGED plans
       ELSE LET plan == plans[plan_id]
            IN  IF feature_name \notin DOMAIN plan.features
                THEN /\ result' = Err("update_step_status", feature_name, "not_found")
                     /\ UNCHANGED plans
                ELSE IF step_index < 0 \/ step_index >= Len(plan.features[feature_name].steps)
                THEN /\ result' = Err("update_step_status", feature_name, "step_out_of_range")
                     /\ UNCHANGED plans
                ELSE /\ plans' = [plans EXCEPT ![plan_id] =
                                    UpdateStepStatusPlan(plan, feature_name, step_index, status, now)]
                     /\ result' = Ok("update_step_status", feature_name)
    /\ UNCHANGED <<now, plan_locks, projVars>>
    /\ UNCHANGED <<callVars, poolVars>>
    /\ UNCHANGED otherVars

\* update_plan(plan_id, **kwargs) with keyword arguments that name none of the
\* keys held here (project_name, requirements, plan_text): the plan is stamped
UpdatePlan(plan_id) ==
    /\ IF plan_id \notin DOMAIN plans
       THEN /\ result' = Err("update_plan", 0, "plan_not_found")
            /\ UNCHANGED plans
       ELSE /\ plans' = [plans EXCEPT ![plan_id].updated_at = now]
            /\ result' = Ok("update_plan", 0)
    /\ UNCHANGED <<now, plan_locks, projVars>>
    /\ UNCHANGED <<callVars, poolVars>>
    /\ UNCHANGED otherVars

\* get_plan_progress reads the plan and returns the counts
GetPlanProgress(plan_id) ==
    /\ result' = IF plan_id \notin DOMAIN plans
                 THEN Err("get_plan_progress", 0, "plan_not_found")
                 ELSE Ok("get_plan_progress", 0)
    /\ UNCHANGED <<now, plans, plan_locks, projVars>>
    /\ UNCHANGED <<callVars, poolVars>>
    /\ UNCHANGED otherVars

\* the clock moves on between calls
Tick ==
    /\ now < MaxClock
    /\ now' = now + 1
    /\ UNCHANGED <<planVars, projVars>>
    /\ UNCHANGED <<callVars, poolVars>>
    /\ UNCHANGED otherVars

NoResult == [success |-> TRUE, error |-> ""]

\* no thread is inside start_implementation
CallIdle == calls = <<>>

\* no wait_completion call, no database, no function call and no concurrent
\* PlanningManager call of interest
WaitIdle == wait_call = <<>>

DbIdle ==
    /\ db_projects = <<>>
    /\ db_file = <<>>
    /\ db_result = <<>>

FnIdle ==
    /\ args = <<>>
    /\ returned = <<>>

PlanCallIdle == plan_calls = <<>>

\* no concurrent callers of interest
PlanThreadsIdle == plan_threads = <<>>

DbThreadsIdle == db_threads = <<>>

SlackThreadsIdle == slack_threads = <<>>

ConcurrentPlanningIdle == concurrent_status = <<>>

ThreadsIdle ==
    /\ PlanThreadsIdle
    /\ DbThreadsIdle
    /\ SlackThreadsIdle
    /\ ConcurrentPlanningIdle

\* no thread pool of interest
PoolIdle ==
    /\ running = FALSE
    /\ task_queue = <<>>
    /\ unfinished_tasks = 0
    /\ workers = <<>>
    /\ submit_calls = <<>>
    /\ shutdown_call = <<>>
    /\ executed_tasks = {}
    /\ failed_tasks = {}
    /\ discarded_tasks = {}
    /\ pool_order = <<>>

\* ProjectManager left as constructed, with no project of interest
ProjIdle ==
    /\ project = [features |-> <<>>]
    /\ active_implementations = <<>>
    /\ project_progress = <<>>
    /\ impl_result = <<>>
    /\ gateway_failed = <<>>

\* one plan, as create_plan stores it at clock 0 under the id "plan_0"
PlanInit ==
    /\ ThreadsIdle
    /\ WaitIdle
    /\ DbIdle
    /\ FnIdle
    /\ PlanCallIdle
    /\ now = 0
    /\ \E n \in 0..NumPlanFeatures, deps \in DependencyChoices :
          plans = (0 :> NewPlan(ExtractFeatures(n, deps), 0))
    /\ plan_locks = {0}
    /\ result = NoResult
    /\ ProjIdle
    /\ CallIdle
    /\ PoolIdle

PlanNext ==
    \/ \E p \in PlanIdArgs, f \in FeatureArgs : StartFeature(p, f)
    \/ \E p \in PlanIdArgs, f \in FeatureArgs : CompleteFeature(p, f)
    \/ \E p \in PlanIdArgs, f \in FeatureArgs, s \in StatusArgs : UpdateFeatureStatus(p, f, s)
    \/ \E p \in PlanIdArgs, f \in FeatureArgs, i \in StepIndexArgs, s \in StepStatusArgs :
          UpdateStepStatus(p, f, i, s)
    \/ \E p \in PlanIdArgs : UpdatePlan(p)
    \/ \E p \in PlanIdArgs : GetPlanProgress(p)
    \/ Tick

PlanSpec == PlanInit /\ [][PlanNext]_vars

----------------------------------------------------------------------------
(* ProjectManager *)

\* Project.max_parallel_tasks as the two Project classes set it
DefaultMaxParallelTasks == 3
DbDefaultMaxParallelTasks == 2

ProjectFeatureNames == 1..NumFeatures

\* max_concurrent_features arguments; 0 stands for None (and for 0: both falsy)
ConcurrentArgs == 0..NumFeatures

\* pr_number arguments: the PR of feature f has number f; 0 is no feature's PR
PrNumberArgs == 0..NumFeatures

\* Dependencies lines of the plan text: none, each feature on its predecessor,
\* the first feature on the second, the first two features on each other
\* (nothing in the code looks for a cycle)
ProjectDependencyChoices ==
    { [f \in ProjectFeatureNames |-> {}],
      [f \in ProjectFeatureNames |-> IF f > 1 THEN {f - 1} ELSE {}],
      [f \in ProjectFeatureNames |-> IF f = 1 THEN {2} ELSE {}],
      [f \in ProjectFeatureNames |-> IF f = 1 THEN {2} ELSE IF f = 2 THEN {1} ELSE {}] }

\* What one admission attempt meets at the two gateways.  create_branch either
\* returns {"success": True}, returns {"success": False} or raises;
\* create_thread returns a dict whose "ok" is true or false, or the attempt
\* raises there.  The thread outcome is read only when create_branch returned.
GatewayOutcomes ==
    {"ok", "branch_reports_failure", "branch_raises", "thread_not_ok", "thread_raises"}

BranchReturned(o) == o # "branch_raises"
ThreadReturned(o) == o \notin {"branch_raises", "thread_raises"}
ThreadOk(o) == o \in {"ok", "branch_reports_failure"}

\* did the create_branch / create_thread call of an attempt fail
BranchFailed(o) == o \in {"branch_raises", "branch_reports_failure"}
ThreadFailed(o) == o \in {"thread_raises", "thread_not_ok"}

NoGatewayFailure == [create_branch |-> {}, create_thread |-> {}]

\* a feature dict of project.features as _extract_features_from_plan builds it;
\* branch, started_at, thread_ts and completed_at say whether the key is set
NewProjectFeature(deps) ==
    [status |-> "not_started",
     dependencies |-> deps,
     branch |-> FALSE,
     started_at |-> FALSE,
     thread_ts |-> FALSE,
     completed_at |-> FALSE]

ExtractProjectFeatures(n, deps) ==
    [f \in 1..n |-> NewProjectFeature(deps[f] \cap (1..n))]

\* the Project after add_project and create_implementation_plan
NewProject(features, mpt) ==
    [features |-> features,
     max_parallel_tasks |-> mpt,
     branches |-> {},
     active_threads |-> {},
     pr_status |-> <<>>,
     merges |-> 0]

\* project_progress[project_id] as create_implementation_plan sets it
NewProgress(features) ==
    [total_features |-> Cardinality(DOMAIN features),
     completed_features |-> 0,
     in_progress_features |-> 0,
     pending_features |-> Cardinality(DOMAIN features)]

\* active_implementations[project_id] as start_implementation first sets it
NewImplementation(features, max_concurrent) ==
    [active_features |-> <<>>,
     completed_features |-> <<>>,
     pending_features |-> [i \in 1..Cardinality(DOMAIN features) |-> i],
     max_concurrent |-> max_concurrent]

NoImplementation == <<>>

Min(a, b) == IF a < b THEN a ELSE b

\* "max_concurrent_features or project.max_parallel_tasks"
MaxConcurrent(proj, max_concurrent_features) ==
    IF max_concurrent_features # 0 THEN max_concurrent_features
    ELSE proj.max_parallel_tasks

\* "available_slots = max_concurrent - len(implementation['active_features'])"
AvailableSlots(implementation, max_concurrent) ==
    max_concurrent - Len(implementation.active_features)

\* "features_to_start = min(available_slots, len(implementation['pending_features']))"
FeaturesToStart(implementation, max_concurrent) ==
    Min(AvailableSlots(implementation, max_concurrent),
        Len(implementation.pending_features))

\* One pass of the body of "for _ in range(features_to_start)" on the state
\* st = [project, implementation, progress, started, failed], meeting outcome o
AdmitOne(st, o) ==
    IF st.implementation.pending_features = <<>> THEN st
    ELSE
    LET feature_name == Head(st.implementation.pending_features)
        popped == [st EXCEPT
                     !.implementation.pending_features = Tail(@),
                     !.failed.create_branch =
                         IF BranchFailed(o) THEN @ \cup {feature_name} ELSE @,
                     !.failed.create_thread =
                         IF ThreadFailed(o) THEN @ \cup {feature_name} ELSE @]
        branched == [popped EXCEPT
                       !.project.branches = @ \cup {feature_name},
                       !.project.features[feature_name].status = "in_progress",
                       !.project.features[feature_name].branch = TRUE,
                       !.project.features[feature_name].started_at = TRUE]
        threaded == IF ThreadOk(o)
                    THEN [branched EXCEPT
                            !.project.features[feature_name].thread_ts = TRUE,
                            !.project.active_threads = @ \cup {feature_name}]
                    ELSE branched
        PutBack(s) == [s EXCEPT !.implementation.pending_features = <<feature_name>> \o @]
    IN  IF ~BranchReturned(o) THEN PutBack(popped)
        ELSE IF ~ThreadReturned(o) THEN PutBack(branched)
        ELSE [threaded EXCEPT
                !.implementation.active_features = Append(@, feature_name),
                !.progress.in_progress_features = @ + 1,
                !.progress.pending_features = @ - 1,
                !.started = Append(@, feature_name)]

\* the whole loop: k passes meeting outcomes[1], ..., outcomes[k]
RECURSIVE AdmissionLoop(_, _, _)
AdmissionLoop(st, outcomes, k) ==
    IF k <= 0 THEN st
    ELSE CHOOSE after \in {AdmitOne(before, outcomes[k]) :
                              before \in {AdmissionLoop(st, outcomes, k - 1)}} : TRUE

\* lines 328-337: the implementation record the call works on
ImplementationOfCall(max_concurrent_features) ==
    IF active_implementations = NoImplementation
    THEN NewImplementation(project.features,
                           MaxConcurrent(project, max_concurrent_features))
    ELSE active_implementations

\* how many passes the admission loop of the call makes
PassesOfCall(max_concurrent_features) ==
    IF DOMAIN project.features = {} THEN 0
    ELSE FeaturesToStart(ImplementationOfCall(max_concurrent_features),
                         MaxConcurrent(project, max_concurrent_features))

\* start_implementation whose k-th admission attempt meets outcomes[k]
StartImplementationMeeting(max_concurrent_features, outcomes) ==
    /\ IF DOMAIN project.features = {}
       THEN /\ impl_result' = [success |-> FALSE, error |-> "no_features", started_features |-> <<>>]
            /\ gateway_failed' = NoGatewayFailure
            /\ UNCHANGED <<project, active_implementations, project_progress>>
       ELSE LET implementation == ImplementationOfCall(max_concurrent_features)
                st0 == [project |-> project, implementation |-> implementation,
                        progress |-> project_progress, started |-> <<>>,
                        failed |-> NoGatewayFailure]
                st == AdmissionLoop(st0, outcomes, PassesOfCall(max_concurrent_features))
            IN  /\ project' = st.project
                /\ active_implementations' = st.implementation
                /\ project_progress' = st.progress
                /\ gateway_failed' = st.failed
                /\ impl_result' = [success |-> TRUE, error |-> "",
                                   started_features |-> st.started]
    /\ UNCHANGED <<now, planVars>>
    /\ UNCHANGED <<callVars, poolVars>>
    /\ UNCHANGED otherVars

StartImplementation(max_concurrent_features) ==
    \E outcomes \in [1..PassesOfCall(max_concurrent_features) -> GatewayOutcomes] :
        StartImplementationMeeting(max_concurrent_features, outcomes)

\* the feature handle_pr_merged finds for pr_number: the first name of
\* pr_status whose entry has that "pr_number", 0 when there is none
FeatureOfPr(proj, pr_number) ==
    IF \E f \in DOMAIN proj.pr_status : proj.pr_status[f] = pr_number
    THEN CHOOSE f \in DOMAIN proj.pr_status :
            /\ proj.pr_status[f] = pr_number
            /\ \A g \in DOMAIN proj.pr_status : proj.pr_status[g] = pr_number => f <= g
    ELSE 0

\* handle_pr_merged: merged says whether merge_pull_request reported success,
\* sent whether send_message to the feature thread returned (it raises otherwise)
HandlePrMergedCall(pr_number, merged, sent) ==
    /\ gateway_failed' = NoGatewayFailure
    /\ IF ~merged
       THEN /\ impl_result' = [success |-> FALSE, error |-> "merge_failed", started_features |-> <<>>]
            /\ UNCHANGED <<project, project_progress>>
       ELSE LET feature_name == FeatureOfPr(project, pr_number)
                merged_proj == [project EXCEPT !.merges = @ + 1]
                found == feature_name # 0 /\ feature_name \in DOMAIN project.features
                done == [merged_proj EXCEPT
                            !.features[feature_name].status = "completed",
                            !.features[feature_name].completed_at = TRUE]
            IN  IF ~found
                THEN /\ project' = merged_proj
                     /\ impl_result' = [success |-> TRUE, error |-> "", started_features |-> <<>>]
                     /\ UNCHANGED project_progress
                ELSE IF project.features[feature_name].thread_ts /\ ~sent
                THEN /\ project' = done
                     /\ impl_result' = [success |-> FALSE, error |-> "raised", started_features |-> <<>>]
                     /\ UNCHANGED project_progress
                ELSE /\ project' = done
                     /\ project_progress' = [project_progress EXCEPT
                                               !.completed_features = @ + 1,
                                               !.in_progress_features = @ - 1]
                     /\ impl_result' = [success |-> TRUE, error |-> "", started_features |-> <<>>]
    /\ UNCHANGED <<now, planVars, active_implementations>>
    /\ UNCHANGED <<callVars, poolVars>>
    /\ UNCHANGED otherVars

\* handle_pr_merged, called while the merge history is short of MaxMerges
HandlePrMerged(pr_number, merged, sent) ==
    /\ project.merges < MaxMerges
    /\ HandlePrMergedCall(pr_number, merged, sent)

\* update_project(project_id, pr_status=...): records for every feature f that
\* its pull request has number f
UpdateProject ==
    /\ project.pr_status = <<>>
    /\ project' = [project EXCEPT !.pr_status = [f \in DOMAIN project.features |-> f]]
    /\ impl_result' = [success |-> TRUE, error |-> "", started_features |-> <<>>]
    /\ gateway_failed' = NoGatewayFailure
    /\ UNCHANGED <<now, planVars, active_implementations, project_progress>>
    /\ UNCHANGED <<callVars, poolVars>>
    /\ UNCHANGED otherVars

\* PlanningManager left as constructed
PlanIdle ==
    /\ now = 0
    /\ plans = <<>>
    /\ plan_locks = {}
    /\ result = NoResult

\* one project after add_project and create_implementation_plan
ProjInit ==
    /\ ThreadsIdle
    /\ WaitIdle
    /\ DbIdle
    /\ FnIdle
    /\ PlanCallIdle
    /\ PlanIdle
    /\ CallIdle
    /\ PoolIdle
    /\ \E n \in 0..NumFeatures, deps \in ProjectDependencyChoices,
          mpt \in {DbDefaultMaxParallelTasks, DefaultMaxParallelTasks} :
          LET features == ExtractProjectFeatures(n, deps)
          IN  /\ project = NewProject(features, mpt)
              /\ project_progress = NewProgress(features)
    /\ active_implementations = NoImplementation
    /\ impl_result = [success |-> TRUE, error |-> "", started_features |-> <<>>]
    /\ gateway_failed = NoGatewayFailure

ProjNext ==
    \/ \E m \in ConcurrentArgs : StartImplementation(m)
    \/ \E n \in PrNumberArgs, merged \in BOOLEAN, sent \in BOOLEAN : HandlePrMerged(n, merged, sent)
    \/ UpdateProject

ProjSpec == ProjInit /\ [][ProjNext]_vars

\* The project under the conditions a completion argument needs: admission
\* passes keep being invoked and meet gateways that succeed, the pull requests
\* are recorded, and every feature that is active and in progress has its
\* pull request merged and reported through handle_pr_merged, once.
GoodAdmissionPass ==
    StartImplementationMeeting(0, [k \in 1..NumFeatures |-> "ok"])

ReportCompleted(f) ==
    /\ active_implementations # NoImplementation
    /\ InList(active_implementations.active_features, f)
    /\ project.features[f].status = "in_progress"
    /\ f \in DOMAIN project.pr_status
    /\ HandlePrMergedCall(project.pr_status[f], TRUE, TRUE)

ProjFairNext ==
    \/ \E m \in ConcurrentArgs : StartImplementation(m)
    \/ UpdateProject
    \/ \E f \in ProjectFeatureNames : ReportCompleted(f)

ProjFairSpec ==
    /\ ProjInit
    /\ [][ProjFairNext]_vars
    /\ WF_vars(GoodAdmissionPass)
    /\ WF_vars(UpdateProject)
    /\ \A f \in ProjectFeatureNames : WF_vars(ReportCompleted(f))

----------------------------------------------------------------------------
(* start_implementation called from several threads at once                 *)
(* (AssistantAgent._handle_start_command submits one pool task per !start   *)
(* command; ProjectManager.start_implementation takes no lock).  A thread   *)
(* is preempted between the steps below; one pass of the loop body is taken *)
(* as a single step.                                                        *)

NumCallers == 2

Callers == 1..NumCallers

\* the locals of a thread that has not entered the call.  implementation says
\* which dict the local name is bound to: "none", "registered" (the dict that
\* active_implementations[project_id] holds) or "replaced" (a dict that another
\* thread's assignment has since replaced there, kept in replaced_dict)
IdleCall ==
    [pc |-> "idle", max_concurrent |-> 0, implementation |-> "none",
     replaced_dict |-> <<>>, features_to_start |-> 0, started_features |-> <<>>]

\* lines 317-328: look the project up, refuse a project without features, set
\* max_concurrent and test "project_id not in self.active_implementations"
CallBegin(t, max_concurrent_features) ==
    /\ calls[t].pc = "idle"
    /\ calls' = [calls EXCEPT
          ![t].pc = IF DOMAIN project.features = {} THEN "done"
                    ELSE IF active_implementations = NoImplementation THEN "init"
                    ELSE "bind",
          ![t].max_concurrent = MaxConcurrent(project, max_concurrent_features)]
    /\ UNCHANGED <<now, planVars, projVars, poolVars>>
    /\ UNCHANGED otherVars

\* lines 329-334: store a fresh dict under project_id; a thread that is bound
\* to the dict stored there before keeps that dict
CallInit(t) ==
    /\ calls[t].pc = "init"
    /\ active_implementations' = NewImplementation(project.features, calls[t].max_concurrent)
    /\ calls' = [u \in Callers |->
          IF u = t THEN [calls[u] EXCEPT !.pc = "bind"]
          ELSE IF calls[u].implementation = "registered"
          THEN [calls[u] EXCEPT !.implementation = "replaced",
                                !.replaced_dict = active_implementations]
          ELSE calls[u]]
    /\ UNCHANGED <<now, planVars, project, project_progress, impl_result,
                   gateway_failed, poolVars>>
    /\ UNCHANGED otherVars

\* lines 337-343: bind implementation, compute available_slots and
\* features_to_start (range() of a negative number is empty)
CallBind(t) ==
    /\ calls[t].pc = "bind"
    /\ LET k == FeaturesToStart(active_implementations, calls[t].max_concurrent)
       IN  calls' = [calls EXCEPT
              ![t].pc = "loop",
              ![t].implementation = "registered",
              ![t].features_to_start = IF k < 0 THEN 0 ELSE k]
    /\ UNCHANGED <<now, planVars, projVars, poolVars>>
    /\ UNCHANGED otherVars

\* lines 345-397: one pass of the loop body on the dict the thread is bound to
CallIterate(t, o) ==
    /\ calls[t].pc = "loop"
    /\ calls[t].features_to_start > 0
    /\ LET registered == calls[t].implementation = "registered"
           implementation == IF registered THEN active_implementations
                             ELSE calls[t].replaced_dict
           st == AdmitOne([project |-> project, implementation |-> implementation,
                           progress |-> project_progress,
                           started |-> calls[t].started_features,
                           failed |-> NoGatewayFailure], o)
       IN  /\ project' = st.project
           /\ project_progress' = st.progress
           /\ active_implementations' =
                 IF registered THEN st.implementation ELSE active_implementations
           /\ calls' = [calls EXCEPT
                 ![t].replaced_dict = IF registered THEN @ ELSE st.implementation,
                 ![t].started_features = st.started,
                 ![t].features_to_start =
                     IF implementation.pending_features = <<>> THEN 0 ELSE @ - 1]
    /\ UNCHANGED <<now, planVars, impl_result, gateway_failed, poolVars>>
    /\ UNCHANGED otherVars

\* lines 399-407: save and return
CallReturn(t) ==
    /\ calls[t].pc = "loop"
    /\ calls[t].features_to_start = 0
    /\ calls' = [calls EXCEPT ![t].pc = "done"]
    /\ UNCHANGED <<now, planVars, projVars, poolVars>>
    /\ UNCHANGED otherVars

\* one project after add_project and create_implementation_plan, and
\* NumCallers threads about to call start_implementation on it
ConcInit ==
    /\ ThreadsIdle
    /\ WaitIdle
    /\ DbIdle
    /\ FnIdle
    /\ PlanCallIdle
    /\ PlanIdle
    /\ PoolIdle
    /\ \E n \in 0..NumFeatures, deps \in ProjectDependencyChoices,
          mpt \in {DbDefaultMaxParallelTasks, DefaultMaxParallelTasks} :
          LET features == ExtractProjectFeatures(n, deps)
          IN  /\ project = NewProject(features, mpt)
              /\ project_progress = NewProgress(features)
    /\ active_implementations = NoImplementation
    /\ impl_result = [success |-> TRUE, error |-> "", started_features |-> <<>>]
    /\ gateway_failed = NoGatewayFailure
    /\ calls = [t \in Callers |-> IdleCall]

ConcNext ==
    \/ \E t \in Callers, m \in ConcurrentArgs : CallBegin(t, m)
    \/ \E t \in Callers : CallInit(t)
    \/ \E t \in Callers : CallBind(t)
    \/ \E t \in Callers, o \in GatewayOutcomes : CallIterate(t, o)
    \/ \E t \in Callers : CallReturn(t)

ConcSpec == ConcInit /\ [][ConcNext]_vars

----------------------------------------------------------------------------
(* ThreadPool (src/backend/thread_pool.py): the worker loop, submit and     *)
(* shutdown, each preempted between the steps below.  Task t is submitted   *)
(* by at most one submit call.                                              *)

NumWorkers == 2
NumTasks == 2

Workers == 1..NumWorkers
Tasks == 1..NumTasks

\* a worker about to evaluate "while self.running"; task is the task it
\* holds, 0 when it holds none
NewWorker == [pc |-> "while", task |-> 0]

\* the shutdown call before it is made; pending holds the tasks that were
\* queued or in flight when it was made
NoShutdown == [pc |-> "idle", wait |-> FALSE, pending |-> {}]

\* the tasks workers have taken off the queue and not yet marked done
InFlight ==
    {workers[w].task : w \in {v \in DOMAIN workers : workers[v].pc \in {"run", "task_done"}}}

\* no task has been put, taken or called yet
NoOrder == [put |-> <<>>, got |-> <<>>, ran |-> <<>>]

\* line 32: "while self.running"
WorkerWhile(w) ==
    /\ w \in DOMAIN workers
    /\ workers[w].pc = "while"
    /\ workers' = [workers EXCEPT ![w].pc = IF running THEN "get" ELSE "exited"]
    /\ UNCHANGED <<running, task_queue, unfinished_tasks, submit_calls, shutdown_call,
                   executed_tasks, failed_tasks, discarded_tasks>>
    /\ UNCHANGED <<now, planVars, projVars, callVars>>
    /\ UNCHANGED pool_order
    /\ UNCHANGED otherVars

\* WorkerGet taking the task put last
WorkerGetNewest(w) ==
    /\ w \in DOMAIN workers
    /\ workers[w].pc = "get"
    /\ IF task_queue # <<>>
       THEN /\ workers' = [workers EXCEPT
                             ![w] = [pc |-> "run", task |-> task_queue[Len(task_queue)]]]
            /\ task_queue' = SubSeq(task_queue, 1, Len(task_queue) - 1)
       ELSE /\ workers' = [workers EXCEPT ![w].pc = "while"]
            /\ UNCHANGED task_queue
    /\ UNCHANGED <<running, unfinished_tasks, submit_calls, shutdown_call,
                   executed_tasks, failed_tasks, discarded_tasks>>
    /\ UNCHANGED <<now, planVars, projVars, callVars>>
    /\ pool_order' = IF task_queue # <<>>
                      THEN [pool_order EXCEPT !.got = Append(@, task_queue[Len(task_queue)])]
                      ELSE pool_order
    /\ UNCHANGED otherVars

\* lines 35, 46-48: get(timeout=1.0) returns the oldest task, or gives up on
\* an empty queue (queue.Empty) and the loop goes round
WorkerGet(w) ==
    /\ w \in DOMAIN workers
    /\ workers[w].pc = "get"
    /\ IF task_queue # <<>>
       THEN /\ workers' = [workers EXCEPT ![w] = [pc |-> "run", task |-> Head(task_queue)]]
            /\ task_queue' = Tail(task_queue)
       ELSE /\ workers' = [workers EXCEPT ![w].pc = "while"]
            /\ UNCHANGED task_queue
    /\ UNCHANGED <<running, unfinished_tasks, submit_calls, shutdown_call,
                   executed_tasks, failed_tasks, discarded_tasks>>
    /\ UNCHANGED <<now, planVars, projVars, callVars>>
    /\ pool_order' = IF task_queue # <<>>
                      THEN [pool_order EXCEPT !.got = Append(@, Head(task_queue))]
                      ELSE pool_order
    /\ UNCHANGED otherVars

\* WorkerRun when the exception of a task is not caught: the thread ends
WorkerRunUncaught(w, raises) ==
    /\ w \in DOMAIN workers
    /\ workers[w].pc = "run"
    /\ executed_tasks' = executed_tasks \cup {workers[w].task}
    /\ failed_tasks' = IF raises THEN failed_tasks \cup {workers[w].task} ELSE failed_tasks
    /\ workers' = [workers EXCEPT ![w].pc = IF raises THEN "exited" ELSE "task_done"]
    /\ UNCHANGED <<running, task_queue, unfinished_tasks, submit_calls, shutdown_call,
                   discarded_tasks>>
    /\ UNCHANGED <<now, planVars, projVars, callVars>>
    /\ pool_order' = [pool_order EXCEPT !.ran = Append(@, workers[w].task)]
    /\ UNCHANGED otherVars

\* lines 37-41: the task is called; it returns or raises an Exception, which
\* is caught and logged
WorkerRun(w, raises) ==
    /\ w \in DOMAIN workers
    /\ workers[w].pc = "run"
    /\ executed_tasks' = executed_tasks \cup {workers[w].task}
    /\ failed_tasks' = IF raises THEN failed_tasks \cup {workers[w].task} ELSE failed_tasks
    /\ workers' = [workers EXCEPT ![w].pc = "task_done"]
    /\ UNCHANGED <<running, task_queue, unfinished_tasks, submit_calls, shutdown_call,
                   discarded_tasks>>
    /\ UNCHANGED <<now, planVars, projVars, callVars>>
    /\ pool_order' = [pool_order EXCEPT !.ran = Append(@, workers[w].task)]
    /\ UNCHANGED otherVars

\* line 44: task_done()
WorkerTaskDone(w) ==
    /\ w \in DOMAIN workers
    /\ workers[w].pc = "task_done"
    /\ unfinished_tasks' = unfinished_tasks - 1
    /\ workers' = [workers EXCEPT ![w] = NewWorker]
    /\ UNCHANGED <<running, task_queue, submit_calls, shutdown_call,
                   executed_tasks, failed_tasks, discarded_tasks>>
    /\ UNCHANGED <<now, planVars, projVars, callVars>>
    /\ UNCHANGED pool_order
    /\ UNCHANGED otherVars

\* lines 60-62: "if not self.running: return"
SubmitCheck(t) ==
    /\ submit_calls[t] = "idle"
    /\ submit_calls' = [submit_calls EXCEPT ![t] = IF running THEN "checked" ELSE "rejected"]
    /\ UNCHANGED <<running, task_queue, unfinished_tasks, workers, shutdown_call,
                   executed_tasks, failed_tasks, discarded_tasks>>
    /\ UNCHANGED <<now, planVars, projVars, callVars>>
    /\ UNCHANGED pool_order
    /\ UNCHANGED otherVars

\* line 64: put
SubmitPut(t) ==
    /\ submit_calls[t] = "checked"
    /\ task_queue' = Append(task_queue, t)
    /\ unfinished_tasks' = unfinished_tasks + 1
    /\ submit_calls' = [submit_calls EXCEPT ![t] = "put"]
    /\ UNCHANGED <<running, workers, shutdown_call, executed_tasks, failed_tasks,
                   discarded_tasks>>
    /\ UNCHANGED <<now, planVars, projVars, callVars>>
    /\ pool_order' = [pool_order EXCEPT !.put = Append(@, t)]
    /\ UNCHANGED otherVars

\* lines 87-89: "self.running = False", then the branch on wait
ShutdownBegin(wait) ==
    /\ shutdown_call.pc = "idle"
    /\ running' = FALSE
    /\ shutdown_call' = [pc |-> IF wait THEN "wait" ELSE "clear",
                         wait |-> wait,
                         pending |-> {task_queue[i] : i \in DOMAIN task_queue} \cup InFlight]
    /\ UNCHANGED <<task_queue, unfinished_tasks, workers, submit_calls,
                   executed_tasks, failed_tasks, discarded_tasks>>
    /\ UNCHANGED <<now, planVars, projVars, callVars>>
    /\ UNCHANGED pool_order
    /\ UNCHANGED otherVars

\* lines 90, 75-79: wait_completion() calls task_queue.join(timeout=None);
\* queue.Queue.join takes no timeout, so the call raises TypeError, which
\* "except queue.Empty" does not catch, and shutdown ends with that exception
ShutdownWait ==
    /\ shutdown_call.pc = "wait"
    /\ shutdown_call' = [shutdown_call EXCEPT !.pc = "raised"]
    /\ UNCHANGED <<running, task_queue, unfinished_tasks, workers, submit_calls,
                   executed_tasks, failed_tasks, discarded_tasks>>
    /\ UNCHANGED <<now, planVars, projVars, callVars>>
    /\ UNCHANGED pool_order
    /\ UNCHANGED otherVars

\* line 93: "while not self.task_queue.empty()"
ShutdownClear ==
    /\ shutdown_call.pc = "clear"
    /\ shutdown_call' = [shutdown_call EXCEPT
                            !.pc = IF task_queue # <<>> THEN "take" ELSE "log"]
    /\ UNCHANGED <<running, task_queue, unfinished_tasks, workers, submit_calls,
                   executed_tasks, failed_tasks, discarded_tasks>>
    /\ UNCHANGED <<now, planVars, projVars, callVars>>
    /\ UNCHANGED pool_order
    /\ UNCHANGED otherVars

\* lines 94-98: get_nowait() and task_done(), or break on queue.Empty
ShutdownTake ==
    /\ shutdown_call.pc = "take"
    /\ IF task_queue # <<>>
       THEN /\ task_queue' = Tail(task_queue)
            /\ unfinished_tasks' = unfinished_tasks - 1
            /\ discarded_tasks' = discarded_tasks \cup {Head(task_queue)}
            /\ shutdown_call' = [shutdown_call EXCEPT !.pc = "clear"]
       ELSE /\ shutdown_call' = [shutdown_call EXCEPT !.pc = "log"]
            /\ UNCHANGED <<task_queue, unfinished_tasks, discarded_tasks>>
    /\ UNCHANGED <<running, workers, submit_calls, executed_tasks, failed_tasks>>
    /\ UNCHANGED <<now, planVars, projVars, callVars>>
    /\ UNCHANGED pool_order
    /\ UNCHANGED otherVars

\* line 100: log and return
ShutdownReturn ==
    /\ shutdown_call.pc = "log"
    /\ shutdown_call' = [shutdown_call EXCEPT !.pc = "returned"]
    /\ UNCHANGED <<running, task_queue, unfinished_tasks, workers, submit_calls,
                   executed_tasks, failed_tasks, discarded_tasks>>
    /\ UNCHANGED <<now, planVars, projVars, callVars>>
    /\ UNCHANGED pool_order
    /\ UNCHANGED otherVars

\* no wait_completion call has been made
NoWait == [pc |-> "idle", raised |-> "none", returned |-> FALSE, unfinished |-> 0]

\* wait_completion(timeout), lines 66-79, called on its own: line 76 calls
\* self.task_queue.join(timeout=timeout); queue.Queue.join takes no timeout
\* argument, so the call raises TypeError, which the "except queue.Empty" of
\* line 78 does not catch: neither "return True" nor "return False" is reached.
\* The record keeps the number of unfinished tasks at the moment the call ends.
WaitCompletion ==
    /\ wait_call.pc = "idle"
    /\ wait_call' = [pc |-> "done", raised |-> "TypeError", returned |-> FALSE,
                     unfinished |-> unfinished_tasks]
    /\ UNCHANGED <<running, task_queue, unfinished_tasks, workers, submit_calls,
                   shutdown_call, executed_tasks, failed_tasks, discarded_tasks>>
    /\ UNCHANGED <<now, planVars, projVars, callVars>>
    /\ UNCHANGED pool_order
    /\ UNCHANGED <<dbVars, fnVars, planCallVars, threadVars>>

\* the pool as __init__ leaves it, its workers started
PoolInit ==
    /\ ThreadsIdle
    /\ DbIdle
    /\ FnIdle
    /\ PlanCallIdle
    /\ wait_call = NoWait
    /\ PlanIdle
    /\ ProjIdle
    /\ CallIdle
    /\ running = TRUE
    /\ task_queue = <<>>
    /\ unfinished_tasks = 0
    /\ workers = [w \in Workers |-> NewWorker]
    /\ submit_calls = [t \in Tasks |-> "idle"]
    /\ shutdown_call = NoShutdown
    /\ executed_tasks = {}
    /\ failed_tasks = {}
    /\ discarded_tasks = {}
    /\ pool_order = NoOrder

\* what a worker thread does next
WorkerStep(w) ==
    \/ WorkerWhile(w)
    \/ WorkerGet(w)
    \/ \E raises \in BOOLEAN : WorkerRun(w, raises)
    \/ WorkerTaskDone(w)

PoolNext ==
    \/ \E w \in Workers : WorkerWhile(w)
    \/ \E w \in Workers : WorkerGet(w)
    \/ \E w \in Workers, raises \in BOOLEAN : WorkerRun(w, raises)
    \/ \E w \in Workers : WorkerTaskDone(w)
    \/ \E t \in Tasks : SubmitCheck(t)
    \/ \E t \in Tasks : SubmitPut(t)
    \/ \E wait \in BOOLEAN : ShutdownBegin(wait)
    \/ ShutdownWait
    \/ ShutdownClear
    \/ ShutdownTake
    \/ ShutdownReturn
    \/ WaitCompletion

PoolSpec == PoolInit /\ [][PoolNext]_vars

\* the worker threads are scheduled again and again and a task that is
\* called returns or raises
PoolFairSpec == PoolSpec /\ \A w \in Workers : WF_vars(WorkerStep(w))

----------------------------------------------------------------------------
(* The lists of a project's implementation; before the first                *)
(* start_implementation call there is no entry, and the call creates one    *)
(* with every feature pending.                                              *)

ActiveOf(implementation) ==
    IF implementation = NoImplementation THEN <<>> ELSE implementation.active_features

CompletedOf(implementation) ==
    IF implementation = NoImplementation THEN <<>> ELSE implementation.completed_features

PendingOf(implementation, proj) ==
    IF implementation = NoImplementation
    THEN [i \in 1..Cardinality(DOMAIN proj.features) |-> i]
    ELSE implementation.pending_features

ImplementationOf(implementation, proj, max_concurrent) ==
    IF implementation = NoImplementation
    THEN NewImplementation(proj.features, max_concurrent)
    ELSE implementation

SeqToSet(s) == {s[i] : i \in DOMAIN s}

----------------------------------------------------------------------------
(* Claims *)

\* C1: a feature is moved into the active list only when every name in its
\* dependencies is already in the completed list.
C1_DependencyOrdering ==
    [][\A f \in DOMAIN project.features :
          (/\ InList(ActiveOf(active_implementations'), f)
           /\ ~InList(ActiveOf(active_implementations), f))
          => \A d \in project.features[f].dependencies :
                InList(CompletedOf(active_implementations), d)]_vars

\* C2: after every scheduler call the number of active features of a project
\* is at most the project's max_parallel_tasks.
C2_ConcurrencyCap ==
    Len(ActiveOf(active_implementations)) <= project.max_parallel_tasks

\* C3: every feature name of a plan appears exactly once in exactly one of
\* pending_features, active_features and completed_features, and the lists
\* hold nothing else.
C3_ListPartition ==
    \A p \in DOMAIN plans :
        LET plan == plans[p]
            all == plan.pending_features \o plan.active_features \o plan.completed_features
        IN  /\ \A f \in DOMAIN plan.features : Count(all, f) = 1
            /\ SeqToSet(all) \subseteq DOMAIN plan.features

\* C4: a feature is in pending_features iff its status is not_started, in
\* active_features iff its status is in_progress, and in completed_features
\* iff its status is completed.
C4_StatusMatchesList ==
    \A p \in DOMAIN plans :
        LET plan == plans[p]
        IN  \A f \in DOMAIN plan.features :
                /\ InList(plan.pending_features, f) <=> plan.features[f].status = "not_started"
                /\ InList(plan.active_features, f) <=> plan.features[f].status = "in_progress"
                /\ InList(plan.completed_features, f) <=> plan.features[f].status = "completed"

C6_PartialFailureIsolation ==
    [][\A m \in ConcurrentArgs :
          LET pending == PendingOf(active_implementations, project)
          IN  (/\ StartImplementation(m)
               /\ Len(pending) >= 2
               /\ pending[1] \in gateway_failed'.create_branch
               /\ ~InList(impl_result'.started_features, pending[1])
               /\ project.features[pending[2]].dependencies = {})
              => /\ \/ InList(impl_result'.started_features, pending[2])
                    \/ pending[2] \in gateway_failed'.create_branch
                    \/ pending[2] \in gateway_failed'.create_thread
                 /\ Head(active_implementations'.pending_features) = pending[1]]_vars

\* C7: if create_branch or create_thread fails (raises or reports failure)
\* for a not yet started feature during start_implementation, then when the
\* call returns the feature's status is still not_started, it is not in the
\* active list, and no branch or thread reference is recorded for it.
C7_NoTransitionOnGatewayFailure ==
    [][\A m \in ConcurrentArgs, f \in DOMAIN project.features :
          (/\ StartImplementation(m)
           /\ f \in gateway_failed'.create_branch \cup gateway_failed'.create_thread
           /\ project.features[f].status = "not_started"
           /\ ~project.features[f].branch
           /\ ~project.features[f].thread_ts)
          => /\ project'.features[f].status = "not_started"
             /\ ~InList(ActiveOf(active_implementations'), f)
             /\ ~project'.features[f].branch
             /\ f \notin project'.branches
             /\ ~project'.features[f].thread_ts
             /\ f \notin project'.active_threads]_vars

\* C8: when a call that returns normally reports an active feature
\* completed, the feature leaves the active list for the completed list, and afterwards no pending feature whose
\* dependencies are all completed is left waiting while a slot is free.
C8_CompletionFreesSlot ==
    [][\A f \in DOMAIN project.features :
          (/\ InList(ActiveOf(active_implementations), f)
           /\ project.features[f].status # "completed"
           /\ project'.features[f].status = "completed"
           /\ impl_result'.success)
          => LET implementation == active_implementations'
             IN  /\ ~InList(implementation.active_features, f)
                 /\ InList(implementation.completed_features, f)
                 /\ Len(implementation.active_features) < implementation.max_concurrent
                    => \A g \in SeqToSet(implementation.pending_features) :
                          ~(project.features[g].dependencies
                              \subseteq SeqToSet(implementation.completed_features))]_vars

\* C9: with k free slots and no gateway failure, start_implementation admits
\* exactly the first min(k, number of eligible pending) eligible names of the
\* pending list in insertion order and leaves all other names pending in their
\* original relative order.
C9_FifoAdmission ==
    [][\A m \in ConcurrentArgs :
          (/\ StartImplementation(m)
           /\ DOMAIN project.features # {}
           /\ gateway_failed' = NoGatewayFailure)
          => LET max_concurrent == MaxConcurrent(project, m)
                 implementation == ImplementationOf(active_implementations, project, max_concurrent)
                 completed == SeqToSet(implementation.completed_features)
                 Eligible(f) == project.features[f].dependencies \subseteq completed
                 eligible == SelectSeq(implementation.pending_features, Eligible)
                 slots == AvailableSlots(implementation, max_concurrent)
                 k == Min(IF slots < 0 THEN 0 ELSE slots, Len(eligible))
                 admitted == SubSeq(eligible, 1, k)
                 Left(f) == ~InList(admitted, f)
             IN  /\ impl_result'.started_features = admitted
                 /\ active_implementations'.pending_features
                        = SelectSeq(implementation.pending_features, Left)]_vars

\* C10: complete_feature on a feature whose status is not in_progress returns
\* an error result and leaves every plan unchanged.
C10_CompletionRequiresInProgress ==
    [][\A p \in DOMAIN plans : \A f \in DOMAIN plans[p].features :
          (/\ CompleteFeature(p, f)
           /\ plans[p].features[f].status # "in_progress")
          => /\ ~result'.success
             /\ plans' = plans]_vars

\* C11: complete_feature on a feature that is already completed returns an
\* error result and changes no plan, and after every complete_feature call on
\* a feature of the plan, and in every state, the feature's name occurs
\* exactly once (never more than once) in completed_features.
C11_CompletionIdempotent ==
    [][\A p \in DOMAIN plans : \A f \in DOMAIN plans[p].features :
          /\ Count(plans'[p].completed_features, f) <= 1
          /\ CompleteFeature(p, f)
             => /\ Count(plans'[p].completed_features, f) = 1
                /\ (\/ InList(plans[p].completed_features, f)
                    \/ plans[p].features[f].status = "completed")
                   => /\ ~result'.success
                      /\ plans' = plans]_vars

\* a completion call was refused for a feature that is already completed
\* and in completed_features once
C11_Witness ==
    /\ result.error = "already_completed"
    /\ \E p \in DOMAIN plans : \E f \in DOMAIN plans[p].features :
          /\ plans[p].features[f].status = "completed"
          /\ Count(plans[p].completed_features, f) = 1

\* C12: every change of a feature's status made by a PlanningManager
\* operation is not_started to in_progress, in_progress to completed, any
\* status to blocked, or blocked to not_started.
C12_LegalTransitions ==
    [][\A p \in DOMAIN plans : \A f \in DOMAIN plans[p].features :
          LET old == plans[p].features[f].status
              new == plans'[p].features[f].status
          IN  old # new
              => \/ old = "not_started" /\ new = "in_progress"
                 \/ old = "in_progress" /\ new = "completed"
                 \/ new = "blocked"
                 \/ old = "blocked" /\ new = "not_started"]_vars

\* C13: after every start_implementation call every feature name of the
\* project is in exactly one of the implementation's pending, active and
\* completed lists, a feature for which a gateway call failed in the call is
\* in pending, and a pending feature for which a gateway call failed in the
\* previous start_implementation call is attempted by this one.
C13_NoFeatureLost ==
    [][\A m \in ConcurrentArgs :
          (StartImplementation(m) /\ DOMAIN project.features # {})
          => LET implementation == active_implementations'
                 all == implementation.pending_features
                            \o implementation.active_features
                            \o implementation.completed_features
                 failed == gateway_failed.create_branch \cup gateway_failed.create_thread
                 failed_now == gateway_failed'.create_branch \cup gateway_failed'.create_thread
             IN  /\ \A f \in DOMAIN project.features : Count(all, f) = 1
                 /\ \A f \in failed_now : InList(implementation.pending_features, f)
                 /\ \A f \in failed :
                        InList(PendingOf(active_implementations, project), f)
                        => \/ InList(impl_result'.started_features, f)
                           \/ f \in failed_now]_vars

\* the first part of C13 alone: the lists of the implementation partition the
\* feature names of the project
ImplementationListsPartition ==
    active_implementations # NoImplementation
    => LET all == active_implementations.pending_features
                    \o active_implementations.active_features
                    \o active_implementations.completed_features
       IN  \A f \in DOMAIN project.features : Count(all, f) = 1

\* C14: the result of a start_implementation call names the features newly
\* started in the call, and when a gateway call failed for a feature that the
\* call did not start, the result carries an error entry.
C14_StructuredAdmissionResult ==
    [][\A m \in ConcurrentArgs :
          (StartImplementation(m) /\ DOMAIN project.features # {})
          => LET before == SeqToSet(ActiveOf(active_implementations))
                 after == SeqToSet(ActiveOf(active_implementations'))
                 started == SeqToSet(impl_result'.started_features)
                 failed_now == gateway_failed'.create_branch \cup gateway_failed'.create_thread
             IN  /\ started = after \ before
                 /\ failed_now \ started # {} => impl_result'.error # ""]_vars

TimesStarted(f) ==
    LET RECURSIVE Sum(_)
        Sum(t) == IF t = 0 THEN 0 ELSE Count(calls[t].started_features, f) + Sum(t - 1)
    IN  Sum(NumCallers)

\* the largest ceiling any of the calls under way or returned works with
LargestCeiling ==
    LET begun == {calls[t].max_concurrent : t \in {u \in Callers : calls[u].pc # "idle"}}
    IN  IF begun = {} THEN 0 ELSE CHOOSE c \in begun : \A d \in begun : d <= c

\* C16: whatever the interleaving of concurrent start_implementation calls on
\* one project, no feature is started twice and the number of active features
\* is at most the concurrency ceiling of the calls.
C16_NoDoubleAdmission ==
    /\ \A f \in DOMAIN project.features : TimesStarted(f) <= 1
    /\ (\E t \in Callers : calls[t].pc # "idle")
       => Len(ActiveOf(active_implementations)) <= LargestCeiling

C18_SubmitAfterShutdownRejected ==
    [][shutdown_call.pc # "idle"
       => \A t \in Tasks :
             submit_calls[t] \in {"idle", "checked", "rejected"}
             => /\ ~InList(task_queue', t)
                /\ t \notin executed_tasks']_vars

\* C19: when a shutdown(wait=True) call is over and the workers have ended,
\* every task that was queued or in flight when it was called has been
\* executed.
C19_GracefulShutdownDrains ==
    (/\ shutdown_call.wait
     /\ shutdown_call.pc \in {"returned", "raised"}
     /\ \A w \in Workers : workers[w].pc = "exited")
    => shutdown_call.pending \subseteq executed_tasks

\* C20: at the moment a shutdown(wait=False) call returns the task queue is
\* empty, and no task that shutdown took off the queue is ever executed.
C20_ImmediateShutdownDiscards ==
    [][/\ discarded_tasks' \cap executed_tasks' = {}
       /\ (/\ ~shutdown_call'.wait
           /\ shutdown_call.pc # "returned"
           /\ shutdown_call'.pc = "returned")
          => task_queue' = <<>>]_vars

\* C21: a wait_completion call that has ended returned a boolean, and it
\* returned True only when no submitted task was unfinished (none queued, none
\* in flight) at that moment.
C21_WaitCompletionResult ==
    wait_call.pc = "done" =>
        /\ wait_call.raised = "none"
        /\ (wait_call.returned => wait_call.unfinished = 0)

\* ---------------------------------------------------------------------------
\* ProjectDatabase (src/backend/project_database.py) and the two Project
\* classes it is handed. A project object is a record of its attributes; of the
\* attributes both classes copy the same way (name, git_url, slack_channel,
\* documents, features, implementation_plan, created_at) max_parallel_tasks
\* stands for all, and of those only projector.backend.project.Project has
\* (requirements, plan, branches, active_threads, pr_status, merges),
\* requirements and merges stand for all. Texts and lists are numbers: 0 is the
\* empty text and the empty list.
\* ---------------------------------------------------------------------------
NumDbProjects == 2

DbProjectIds == 1..NumDbProjects

RequirementsArgs == {0, 1}

\* a project_id that is None or empty, and the uuid that replaces it
NoId == 0

Uuid4 == NumDbProjects + 1

\* project_database.Project.__init__, lines 13-24
NewDbProject(project_id, created_at) ==
    [class |-> "project_database.Project",
     id |-> IF project_id = NoId THEN Uuid4 ELSE project_id,
     max_parallel_tasks |-> DbDefaultMaxParallelTasks,
     updated_at |-> created_at]

\* project.Project.__init__, project.py lines 10-27, as add_project calls it
NewManagerProject(id, requirements, created_at) ==
    [class |-> "project.Project",
     id |-> id,
     requirements |-> requirements,
     max_parallel_tasks |-> DefaultMaxParallelTasks,
     updated_at |-> created_at,
     merges |-> 0]

\* the objects handed to save_project, constructed at clock 0
ProjectArgs ==
    {NewDbProject(i, 0) : i \in DbProjectIds}
    \cup {NewManagerProject(i, r, 0) : i \in DbProjectIds, r \in RequirementsArgs}

\* to_dict of the object's own class: project_database.py lines 26-39,
\* project.py lines 29-48
ToDict(p) ==
    IF p.class = "project_database.Project"
    THEN [id |-> p.id,
          max_parallel_tasks |-> p.max_parallel_tasks,
          updated_at |-> p.updated_at]
    ELSE [id |-> p.id,
          requirements |-> p.requirements,
          max_parallel_tasks |-> p.max_parallel_tasks,
          updated_at |-> p.updated_at,
          merges |-> p.merges]

\* data.get(key, default)
DictGet(data, key, default) ==
    IF key \in DOMAIN data THEN data[key] ELSE default

\* project_database.Project.from_dict, lines 41-59: the only from_dict that
\* _read_database calls; it reads the keys of its own class and no other
DbFromDict(data) ==
    LET loaded == NewDbProject(DictGet(data, "id", NoId), now)
    IN  [loaded EXCEPT
            !.max_parallel_tasks =
                DictGet(data, "max_parallel_tasks", DbDefaultMaxParallelTasks),
            !.updated_at = DictGet(data, "updated_at", loaded.updated_at)]

\* what opening and dumping to the file can do: succeed, fail at open() and
\* leave the file as it was, or fail inside json.dump after open(.., 'w')
\* truncated the file, which leaves text json.load cannot parse
WriteOutcomes == {"ok", "open_fails", "dump_fails"}

\* _write_database, lines 93-99: every exception is logged and swallowed
WriteDatabase(file, data, outcome) ==
    CASE outcome = "ok" -> [readable |-> TRUE, data |-> data]
      [] outcome = "open_fails" -> file
      [] outcome = "dump_fails" -> [readable |-> FALSE, data |-> <<>>]

\* the project ids the file holds
FileIds == IF db_file.readable THEN DOMAIN db_file.data ELSE {}

DictPut(d, key, value) ==
    [k \in DOMAIN d \cup {key} |-> IF k = key THEN value ELSE d[k]]

DictDel(d, key) == [k \in DOMAIN d \ {key} |-> d[k]]

\* line 105: project.updated_at = datetime.now().isoformat()
Stamped(p) == [p EXCEPT !.updated_at = now]

\* save_project, lines 101-123; read_ok is whether open() and json.load() of
\* lines 108-109 succeed on a well-formed file
SaveProject(p, read_ok, write) ==
    /\ IF db_file.readable /\ read_ok
       THEN /\ db_file' = WriteDatabase(db_file,
                              DictPut(db_file.data, p.id, ToDict(Stamped(p))),
                              write)
            /\ db_projects' = DictPut(db_projects, p.id, Stamped(p))
            /\ db_result' = [op |-> "save", returned |-> TRUE, id |-> p.id,
                             read_failed |-> FALSE, write_failed |-> write # "ok"]
       ELSE /\ db_result' = [op |-> "save", returned |-> FALSE, id |-> p.id,
                             read_failed |-> TRUE, write_failed |-> FALSE]
            /\ UNCHANGED <<db_projects, db_file>>
    /\ UNCHANGED <<now, planVars, projVars, callVars, poolVars>>
    /\ UNCHANGED <<waitVars, fnVars, planCallVars, threadVars>>

\* delete_project, lines 140-162
DeleteProject(project_id, read_ok, write) ==
    /\ IF db_file.readable /\ read_ok
       THEN IF project_id \in DOMAIN db_file.data
            THEN /\ db_file' = WriteDatabase(db_file,
                                   DictDel(db_file.data, project_id), write)
                 /\ db_projects' = DictDel(db_projects, project_id)
                 /\ db_result' = [op |-> "delete", returned |-> TRUE, id |-> project_id,
                                  read_failed |-> FALSE, write_failed |-> write # "ok"]
            ELSE /\ db_result' = [op |-> "delete", returned |-> FALSE, id |-> project_id,
                                  read_failed |-> FALSE, write_failed |-> FALSE]
                 /\ UNCHANGED <<db_projects, db_file>>
       ELSE /\ db_result' = [op |-> "delete", returned |-> FALSE, id |-> project_id,
                             read_failed |-> TRUE, write_failed |-> FALSE]
            /\ UNCHANGED <<db_projects, db_file>>
    /\ UNCHANGED <<now, planVars, projVars, callVars, poolVars>>
    /\ UNCHANGED <<waitVars, fnVars, planCallVars, threadVars>>

\* _read_database, lines 80-91, as _init_database runs it when a
\* ProjectDatabase is constructed again on the same file
ReadDatabase(read_ok) ==
    /\ db_projects' = IF db_file.readable /\ read_ok
                      THEN [project_id \in DOMAIN db_file.data |->
                                DbFromDict(db_file.data[project_id])]
                      ELSE <<>>
    /\ db_result' = [op |-> "read", returned |-> TRUE, id |-> NoId,
                     read_failed |-> ~(db_file.readable /\ read_ok),
                     write_failed |-> FALSE]
    /\ UNCHANGED db_file
    /\ UNCHANGED <<now, planVars, projVars, callVars, poolVars>>
    /\ UNCHANGED <<waitVars, fnVars, planCallVars, threadVars>>

\* a ProjectDatabase constructed on a fresh file: _init_database wrote {}
DbInit ==
    /\ ThreadsIdle
    /\ PlanIdle
    /\ ProjIdle
    /\ CallIdle
    /\ PoolIdle
    /\ WaitIdle
    /\ FnIdle
    /\ PlanCallIdle
    /\ db_projects = <<>>
    /\ db_file = [readable |-> TRUE, data |-> <<>>]
    /\ db_result = [op |-> "init", returned |-> TRUE, id |-> NoId,
                    read_failed |-> FALSE, write_failed |-> FALSE]

DbNext ==
    \/ \E p \in ProjectArgs, read_ok \in BOOLEAN, write \in WriteOutcomes :
          SaveProject(p, read_ok, write)
    \/ \E project_id \in DbProjectIds, read_ok \in BOOLEAN, write \in WriteOutcomes :
          DeleteProject(project_id, read_ok, write)
    \/ \E read_ok \in BOOLEAN : ReadDatabase(read_ok)
    \/ Tick

DbSpec == DbInit /\ [][DbNext]_vars

\* C22: after a save_project or delete_project call, a save that returned True
\* has the project's record in the file, a call whose read or write of the
\* file failed returned False, and the in-memory map and the file hold the same
\* project ids.
C22_SaveReportsFaithfully ==
    db_result.op \in {"save", "delete"} =>
        /\ (db_result.op = "save" /\ db_result.returned =>
                /\ db_result.id \in FileIds
                /\ db_file.data[db_result.id] = ToDict(db_projects[db_result.id]))
        /\ (db_result.read_failed \/ db_result.write_failed => ~db_result.returned)
        /\ DOMAIN db_projects = FileIds

\* two project objects agree in class and in every attribute but updated_at
SameExceptUpdatedAt(p, q) ==
    /\ DOMAIN p = DOMAIN q
    /\ \A k \in DOMAIN p \ {"updated_at"} : p[k] = q[k]

\* C23: when the database is reloaded from a readable file, every project
\* whose saved record the file holds is read back equal to the saved object in
\* every field except updated_at, whichever class the saved object had.
C23_PersistenceRoundTrip ==
    [][(db_result'.op = "read" /\ ~db_result'.read_failed) =>
          \A i \in DOMAIN db_projects \cap FileIds :
              db_file.data[i] = ToDict(db_projects[i]) =>
                  SameExceptUpdatedAt(db_projects'[i], db_projects[i])]_vars

\* ---------------------------------------------------------------------------
\* The progress figures: PlanningManager.get_plan_progress
\* (planning_manager.py lines 429-474) and estimate_project_completion
\* (utils.py lines 106-118), as functions of the features and their statuses.
\* A float that a division produces is kept as the fraction num/den; a float
\* that round(x, 1) produces is kept in tenths.
\* ---------------------------------------------------------------------------
MaxProgressFeatures == 4

ProgressStatuses == {"pending", "in_progress", "completed"}

\* the features dictionaries handed to the two functions: name -> status
FeatureStatusMaps ==
    UNION {[1..n -> ProgressStatuses] : n \in 0..MaxProgressFeatures}

\* the names whose feature has the given status, in the features' order
NamesWithStatus(features, status) ==
    SelectSeq([i \in 1..Cardinality(DOMAIN features) |-> i],
              LAMBDA name : features[name] = status)

\* a plan whose three lists agree with the statuses of its features
PlanWithStatuses(features) ==
    [features |-> features,
     pending_features |-> NamesWithStatus(features, "pending"),
     active_features |-> NamesWithStatus(features, "in_progress"),
     completed_features |-> NamesWithStatus(features, "completed")]

\* feature_progress computed from the features that are not pending
FeatureProgressNotPending(plan) ==
    LET total_features == Cardinality(DOMAIN plan.features)
        started_features == Len(plan.completed_features) + Len(plan.active_features)
    IN  IF total_features > 0
        THEN [num |-> started_features * 100, den |-> total_features]
        ELSE [num |-> 0, den |-> 1]

\* planning_manager.py lines 444-445 and 460: feature_progress
FeatureProgress(plan) ==
    LET total_features == Cardinality(DOMAIN plan.features)
        completed_features == Len(plan.completed_features)
    IN  IF total_features > 0
        THEN [num |-> completed_features * 100, den |-> total_features]
        ELSE [num |-> 0, den |-> 1]

\* sum(1 for f in features.values() if f.get("status") == status)
CountStatus(features, status) ==
    Cardinality({name \in DOMAIN features : features[name] = status})

\* round(num / den, 0) for num >= 0, den > 0: to the nearest integer, a tie
\* to the even one
RoundHalfEven(num, den) ==
    LET q == num \div den
        r == num % den
    IN  IF 2 * r < den THEN q
        ELSE IF 2 * r > den THEN q + 1
        ELSE IF q % 2 = 0 THEN q ELSE q + 1

\* estimate_project_completion, utils.py lines 106-118, in tenths of a percent:
\* round((completed + in_progress * 0.5) / total * 100, 1)
EstimateProjectCompletion(features) ==
    LET total_features == Cardinality(DOMAIN features)
        completed_features == CountStatus(features, "completed")
        in_progress_features == CountStatus(features, "in_progress")
    IN  IF DOMAIN features = {} THEN 0
        ELSE RoundHalfEven((2 * completed_features + in_progress_features) * 1000,
                           2 * total_features)

NoReturn == [fn |-> "none"]

\* get_plan_progress is called on the plan
CallGetPlanProgress ==
    /\ returned.fn = "none"
    /\ returned' = [fn |-> "get_plan_progress",
                    feature_progress |-> FeatureProgress(PlanWithStatuses(args.features))]
    /\ UNCHANGED args
    /\ UNCHANGED <<now, planVars, projVars, callVars, poolVars>>
    /\ UNCHANGED <<waitVars, dbVars, planCallVars, threadVars>>

\* estimate_project_completion is called on the features
CallEstimateProjectCompletion ==
    /\ returned.fn = "none"
    /\ returned' = [fn |-> "estimate_project_completion",
                    tenths |-> EstimateProjectCompletion(args.features)]
    /\ UNCHANGED args
    /\ UNCHANGED <<now, planVars, projVars, callVars, poolVars>>
    /\ UNCHANGED <<waitVars, dbVars, planCallVars, threadVars>>

ProgressInit ==
    /\ ThreadsIdle
    /\ PlanIdle
    /\ ProjIdle
    /\ CallIdle
    /\ PoolIdle
    /\ WaitIdle
    /\ DbIdle
    /\ PlanCallIdle
    /\ args \in {[features |-> f] : f \in FeatureStatusMaps}
    /\ returned = NoReturn

ProgressNext ==
    \/ CallGetPlanProgress
    \/ CallEstimateProjectCompletion

ProgressSpec == ProgressInit /\ [][ProgressNext]_vars

\* the counts the claim speaks of
TotalOfArgs == Cardinality(DOMAIN args.features)

CompletedOfArgs == CountStatus(args.features, "completed")

InProgressOfArgs == CountStatus(args.features, "in_progress")

PendingOfArgs == CountStatus(args.features, "pending")

\* 4 features: 2 completed, 1 in progress, 1 pending
ScenarioD ==
    /\ TotalOfArgs = 4
    /\ CompletedOfArgs = 2
    /\ InProgressOfArgs = 1
    /\ PendingOfArgs = 1

\* feature progress is completed / total * 100, and 0 without features
FeatureProgressAsClaimed ==
    returned.fn = "get_plan_progress" =>
        /\ returned.feature_progress.den > 0
        /\ returned.feature_progress.num * TotalOfArgs =
               CompletedOfArgs * 100 * returned.feature_progress.den
        /\ (TotalOfArgs = 0 => returned.feature_progress.num = 0)
        /\ (ScenarioD =>
               returned.feature_progress.num = 50 * returned.feature_progress.den)

\* C24 as stated: feature progress is completed / total * 100 (0 without
\* features), the weighted completion is exactly
\* (completed + in_progress / 2) / total * 100, and 4 features with 2
\* completed, 1 in progress and 1 pending give 50 and 62.5.
C24_ProgressFiguresExact ==
    /\ FeatureProgressAsClaimed
    /\ (returned.fn = "estimate_project_completion" =>
           /\ (TotalOfArgs > 0 =>
                  returned.tenths * 2 * TotalOfArgs =
                      (2 * CompletedOfArgs + InProgressOfArgs) * 1000)
           /\ (ScenarioD => returned.tenths = 625))

\* the distance between the returned weighted completion and
\* (completed + in_progress / 2) / total * 100, in units of 1 / (20 * total)
WeightedDistance ==
    LET d == returned.tenths * 2 * TotalOfArgs
             - (2 * CompletedOfArgs + InProgressOfArgs) * 1000
    IN  IF d < 0 THEN 0 - d ELSE d

\* C24 amended: feature progress is completed / total * 100 (0 without
\* features); the weighted completion is (completed + in_progress / 2) / total
\* * 100 rounded to one decimal place, that is a whole number of tenths within
\* 0.05 of it, and 0 without features; 4 features with 2 completed, 1 in
\* progress and 1 pending give 50 and 62.5.
C24_ProgressFigures ==
    /\ FeatureProgressAsClaimed
    /\ (returned.fn = "estimate_project_completion" =>
           /\ WeightedDistance <= TotalOfArgs
           /\ (TotalOfArgs = 0 => returned.tenths = 0)
           /\ (ScenarioD => returned.tenths = 625))

\* the weighted completion of scenario D has been computed
C24_Witness ==
    /\ ScenarioD
    /\ returned.fn = "estimate_project_completion"
    /\ returned.tenths = 625

\* ---------------------------------------------------------------------------
\* ThreadPool.__init__ (thread_pool.py lines 10-28) as a function of
\* max_threads: how many worker threads the constructor starts.
\* ---------------------------------------------------------------------------
ThreadsArgBound == 22

MaxThreadsArgs == (0 - ThreadsArgBound)..ThreadsArgBound

\* line 16: "Limit between 1 and 20"
MinPoolThreads == 1

MaxPoolThreads == 20

Max(a, b) == IF a > b THEN a ELSE b

\* min(max_threads, 20) alone, without the lower limit
ClampMaxThreadsNoFloor(max_threads) == Min(max_threads, MaxPoolThreads)

\* line 16: max(1, min(max_threads, 20))
ClampMaxThreads(max_threads) ==
    Max(MinPoolThreads, Min(max_threads, MaxPoolThreads))

\* lines 16-20: the fields are set, no thread is started yet
PoolConstruct ==
    /\ returned.fn = "none"
    /\ returned' = [fn |-> "ThreadPool", pc |-> "for",
                    max_threads |-> ClampMaxThreads(args.max_threads),
                    threads |-> 0]
    /\ UNCHANGED args
    /\ UNCHANGED <<now, planVars, projVars, callVars, poolVars>>
    /\ UNCHANGED <<waitVars, dbVars, planCallVars, threadVars>>

\* lines 23-28: "for i in range(self.max_threads)" starts one thread and
\* appends it, or the loop is over and the constructor returns
PoolStartThread ==
    /\ returned.fn = "ThreadPool"
    /\ returned.pc = "for"
    /\ returned' = IF returned.threads < returned.max_threads
                   THEN [returned EXCEPT !.threads = @ + 1]
                   ELSE [returned EXCEPT !.pc = "done"]
    /\ UNCHANGED args
    /\ UNCHANGED <<now, planVars, projVars, callVars, poolVars>>
    /\ UNCHANGED <<waitVars, dbVars, planCallVars, threadVars>>

ClampInit ==
    /\ ThreadsIdle
    /\ PlanIdle
    /\ ProjIdle
    /\ CallIdle
    /\ PoolIdle
    /\ WaitIdle
    /\ DbIdle
    /\ PlanCallIdle
    /\ args \in {[max_threads |-> m] : m \in MaxThreadsArgs}
    /\ returned = NoReturn

ClampNext ==
    \/ PoolConstruct
    \/ PoolStartThread

ClampSpec == ClampInit /\ [][ClampNext]_vars

\* C25: a constructed pool has started exactly min(max(max_threads, 1), 20)
\* workers, and while it is being constructed it has started no more.
C25_WorkerCountClamp ==
    returned.fn = "ThreadPool" =>
        /\ returned.threads <= Min(Max(args.max_threads, 1), 20)
        /\ (returned.pc = "done" =>
               returned.threads = Min(Max(args.max_threads, 1), 20))

\* pools have been constructed from a max_threads below 1, above 20 and
\* between: this one from 0, with its single worker started
C25_Witness ==
    /\ args.max_threads = 0
    /\ returned.fn = "ThreadPool"
    /\ returned.pc = "done"
    /\ returned.threads = 1

\* the dependency graph of the features has no cycle: the features can be
\* ranked so that every dependency ranks below its dependent
AcyclicDependencies(features) ==
    \E rank \in [DOMAIN features -> 1..Cardinality(DOMAIN features)] :
        \A f \in DOMAIN features :
            \A d \in features[f].dependencies : rank[d] < rank[f]

\* C26: for a project whose dependency graph is acyclic, with gateways that
\* succeed, admission passes that keep being invoked and every active feature
\* reported completed, eventually every feature has been admitted and is
\* completed.
C26_PlanCompletionReached ==
    <>(AcyclicDependencies(project.features) =>
          \A f \in DOMAIN project.features :
              /\ project.features[f].status = "completed"
              /\ project.features[f].started_at)

\* ---------------------------------------------------------------------------
\* Concurrent PlanningManager calls on one plan (planning_manager.py lines
\* 216-427). Each thread makes one call; the call checks the plan id, enters
\* "with self.plan_locks[plan_id]" and runs its body statement group by
\* statement group, so that another thread can be scheduled between any two
\* groups. plan_calls holds the reentrant lock of plan 0 (owner 0: nobody),
\* the plan the calls started from, and the locals of each thread. The clock
\* stands still while the calls run.
\* ---------------------------------------------------------------------------
NumPlanThreads == 2

PlanThreads == 1..NumPlanThreads

\* the calls a thread can make on the plan
PlanCallArgs ==
    {[op |-> "start_feature", feature_name |-> f, status |-> "none", step_index |-> 0] :
        f \in PlanFeatureNames}
    \cup {[op |-> "complete_feature", feature_name |-> f, status |-> "none", step_index |-> 0] :
        f \in PlanFeatureNames}
    \cup {[op |-> "update_feature_status", feature_name |-> f, status |-> s, step_index |-> 0] :
        f \in PlanFeatureNames, s \in StatusArgs}
    \cup {[op |-> "update_step_status", feature_name |-> f, status |-> s, step_index |-> i] :
        f \in PlanFeatureNames, s \in StepStatusArgs, i \in StepIndexArgs}

\* the plan and the result of a call that runs alone, from first line to last
SequentialCall(plan, c) ==
    LET f == c.feature_name
    IN  CASE c.op = "start_feature" ->
               LET e == StartFeatureError(plan, f)
               IN  IF e # "" THEN [plan |-> plan, result |-> Err(c.op, f, e)]
                   ELSE [plan |-> StartFeaturePlan(plan, f, now), result |-> Ok(c.op, f)]
          [] c.op = "complete_feature" ->
               LET e == CompleteFeatureError(plan, f)
               IN  IF e # "" THEN [plan |-> plan, result |-> Err(c.op, f, e)]
                   ELSE [plan |-> CompleteFeaturePlan(plan, f, now), result |-> Ok(c.op, f)]
          [] c.op = "update_feature_status" ->
               IF f \notin DOMAIN plan.features
               THEN [plan |-> plan, result |-> Err(c.op, f, "not_found")]
               ELSE [plan |-> UpdateFeatureStatusPlan(plan, f, c.status, now),
                     result |-> Ok(c.op, f)]
          [] c.op = "update_step_status" ->
               IF f \notin DOMAIN plan.features
               THEN [plan |-> plan, result |-> Err(c.op, f, "not_found")]
               ELSE IF c.step_index < 0 \/ c.step_index >= Len(plan.features[f].steps)
               THEN [plan |-> plan, result |-> Err(c.op, f, "step_out_of_range")]
               ELSE [plan |-> UpdateStepStatusPlan(plan, f, c.step_index, c.status, now),
                     result |-> Ok(c.op, f)]

\* the plans the concurrent calls start from: a plan as create_plan stores it,
\* or that plan after one call
StartingPlans ==
    LET created == {NewPlan(ExtractFeatures(n, deps), 0) :
                       n \in 1..NumPlanFeatures, deps \in DependencyChoices}
    IN  created \cup {SequentialCall(plan, c).plan : plan \in created, c \in PlanCallArgs}

\* the locals of a thread that is about to make call c; feature_status is the
\* status update_step_status finds the feature in
NewPlanCall(c) ==
    [pc |-> "call", op |-> c.op, feature_name |-> c.feature_name, status |-> c.status,
     step_index |-> c.step_index, nested |-> FALSE, feature_status |-> "none",
     result |-> NoResult]

\* the call whose body the thread is in: update_step_status line 414 calls
\* self.update_feature_status(plan_id, feature_name, "completed")
OpOf(c) == IF c.nested THEN "update_feature_status" ELSE c.op

StatusOf(c) == IF c.nested THEN "completed" ELSE c.status

\* acquiring with no regard to who holds the lock
CanAcquireAlways(lock, t) == TRUE

\* threading.RLock: free, or held by the acquiring thread itself
CanAcquire(lock, t) == lock.owner = 0 \/ lock.owner = t

\* the error the checks at the head of the body return, "" when there is none
BodyError(plan, c) ==
    CASE OpOf(c) = "start_feature" -> StartFeatureError(plan, c.feature_name)
      [] OpOf(c) = "complete_feature" -> CompleteFeatureError(plan, c.feature_name)
      [] OpOf(c) = "update_feature_status" ->
            IF c.feature_name \notin DOMAIN plan.features THEN "not_found" ELSE ""
      [] OpOf(c) = "update_step_status" ->
            IF c.feature_name \notin DOMAIN plan.features THEN "not_found"
            ELSE IF c.step_index < 0
                    \/ c.step_index >= Len(plan.features[c.feature_name].steps)
            THEN "step_out_of_range"
            ELSE ""

\* update_step_status line 413, never true
AutoCompletesNever(feature) == FALSE

\* update_step_status line 413: "if all_completed and feature['status'] != 'completed'"
AutoCompletes(feature) ==
    AllStepsCompleted(feature) /\ feature.status # "completed"

\* "if plan_id not in self.plans: return error", the first statement of every call
PlanCallCheck(t) ==
    /\ plan_calls.calls[t].pc = "call"
    /\ plan_calls' = [plan_calls EXCEPT
          !.calls[t].pc = IF 0 \in DOMAIN plans THEN "acquire"
                          ELSE IF plan_calls.calls[t].nested THEN "release"
                          ELSE "done",
          !.calls[t].nested = IF 0 \in DOMAIN plans THEN @ ELSE FALSE,
          !.calls[t].result =
              IF 0 \in DOMAIN plans \/ plan_calls.calls[t].nested THEN @
              ELSE Err(plan_calls.calls[t].op, plan_calls.calls[t].feature_name,
                       "plan_not_found")]
    /\ UNCHANGED <<now, planVars, projVars, callVars, poolVars>>
    /\ UNCHANGED <<waitVars, dbVars, fnVars, threadVars>>

\* "with self.plan_locks[plan_id]:" entered
PlanCallAcquire(t) ==
    /\ plan_calls.calls[t].pc = "acquire"
    /\ CanAcquire(plan_calls.lock, t)
    /\ plan_calls' = [plan_calls EXCEPT
          !.lock = [owner |-> t, count |-> @.count + 1],
          !.calls[t].pc = "body"]
    /\ UNCHANGED <<now, planVars, projVars, callVars, poolVars>>
    /\ UNCHANGED <<waitVars, dbVars, fnVars, threadVars>>

\* the head of the body: the checks, and what precedes the list updates.
\* start_feature lines 229-247, complete_feature lines 279-286,
\* update_feature_status lines 325-334, update_step_status lines 393-414
PlanCallBody(t) ==
    /\ plan_calls.calls[t].pc = "body"
    /\ LET c == plan_calls.calls[t]
           f == c.feature_name
           plan == plans[0]
           e == BodyError(plan, c)
           stepped == [plan EXCEPT
                         !.features[f].steps[c.step_index + 1].status = c.status,
                         !.features[f].steps[c.step_index + 1].updated_at = TRUE]
       IN  IF e # ""
           THEN /\ plan_calls' = [plan_calls EXCEPT
                                    !.calls[t].result = Err(OpOf(c), f, e),
                                    !.calls[t].pc = "release"]
                /\ UNCHANGED plans
           ELSE IF OpOf(c) = "update_feature_status"
           THEN /\ plans' = [plans EXCEPT ![0].features[f].status = StatusOf(c)]
                /\ plan_calls' = [plan_calls EXCEPT !.calls[t].pc = "move"]
           ELSE IF OpOf(c) = "update_step_status"
           THEN /\ plans' = [plans EXCEPT ![0] = stepped]
                /\ plan_calls' =
                     IF AutoCompletes(stepped.features[f])
                     THEN [plan_calls EXCEPT !.calls[t].nested = TRUE,
                                             !.calls[t].feature_status = plan.features[f].status,
                                             !.calls[t].pc = "call"]
                     ELSE [plan_calls EXCEPT !.calls[t].result = Ok(OpOf(c), f),
                                             !.calls[t].feature_status = plan.features[f].status,
                                             !.calls[t].pc = "release"]
           ELSE /\ plan_calls' = [plan_calls EXCEPT !.calls[t].pc = "move"]
                /\ UNCHANGED plans
    /\ UNCHANGED <<now, plan_locks, result, projVars, callVars, poolVars>>
    /\ UNCHANGED <<waitVars, dbVars, fnVars, threadVars>>

\* the list updates: start_feature lines 250-253, complete_feature lines
\* 289-292, update_feature_status lines 337-357
PlanCallMove(t) ==
    /\ plan_calls.calls[t].pc = "move"
    /\ LET c == plan_calls.calls[t]
           f == c.feature_name
       IN  plans' =
             CASE OpOf(c) = "start_feature" ->
                    [plans EXCEPT ![0].pending_features = RemoveIfPresent(@, f),
                                  ![0].active_features = Append(@, f)]
               [] OpOf(c) = "complete_feature" ->
                    [plans EXCEPT ![0].active_features = RemoveIfPresent(@, f),
                                  ![0].completed_features = Append(@, f)]
               [] OpOf(c) = "update_feature_status" ->
                    [plans EXCEPT ![0] = MoveFeature(@, f, StatusOf(c), now)]
    /\ plan_calls' = [plan_calls EXCEPT !.calls[t].pc = "mark"]
    /\ UNCHANGED <<now, plan_locks, result, projVars, callVars, poolVars>>
    /\ UNCHANGED <<waitVars, dbVars, fnVars, threadVars>>

\* the rest of the body up to the return: start_feature lines 254-264,
\* complete_feature lines 293-308, update_feature_status lines 359-373
PlanCallMark(t) ==
    /\ plan_calls.calls[t].pc = "mark"
    /\ LET c == plan_calls.calls[t]
           f == c.feature_name
           completed == [plans[0] EXCEPT !.features[f].status = "completed",
                                         !.features[f].completed_at = TRUE,
                                         !.updated_at = now]
           stamped == [plans[0] EXCEPT !.updated_at = now]
       IN  plans' =
             CASE OpOf(c) = "start_feature" ->
                    [plans EXCEPT ![0].features[f].status = "in_progress",
                                  ![0].features[f].started_at = TRUE,
                                  ![0].updated_at = now]
               [] OpOf(c) = "complete_feature" ->
                    [plans EXCEPT ![0] =
                        IF AllFeaturesCompleted(completed)
                        THEN [completed EXCEPT !.status = "completed"]
                        ELSE completed]
               [] OpOf(c) = "update_feature_status" ->
                    [plans EXCEPT ![0] =
                        [stamped EXCEPT !.status = PlanStatusAfterUpdate(stamped, StatusOf(c))]]
    /\ plan_calls' = [plan_calls EXCEPT
          !.calls[t].result = Ok(OpOf(plan_calls.calls[t]), plan_calls.calls[t].feature_name),
          !.calls[t].pc = "release"]
    /\ UNCHANGED <<now, plan_locks, result, projVars, callVars, poolVars>>
    /\ UNCHANGED <<waitVars, dbVars, fnVars, threadVars>>

\* the with block is left: the lock is released once; a nested
\* update_feature_status returns into update_step_status, whose own return
\* (lines 416-424) and release follow
PlanCallRelease(t) ==
    /\ plan_calls.calls[t].pc = "release"
    /\ plan_calls' = [plan_calls EXCEPT
          !.lock = [owner |-> IF @.count = 1 THEN 0 ELSE @.owner,
                    count |-> @.count - 1],
          !.calls[t].nested = FALSE,
          !.calls[t].result = IF plan_calls.calls[t].nested
                              THEN Ok(plan_calls.calls[t].op, plan_calls.calls[t].feature_name)
                              ELSE @,
          !.calls[t].pc = IF plan_calls.calls[t].nested THEN "release" ELSE "done"]
    /\ UNCHANGED <<now, planVars, projVars, callVars, poolVars>>
    /\ UNCHANGED <<waitVars, dbVars, fnVars, threadVars>>

PlanConcInit ==
    /\ ThreadsIdle
    /\ ProjIdle
    /\ CallIdle
    /\ PoolIdle
    /\ WaitIdle
    /\ DbIdle
    /\ FnIdle
    /\ now = 0
    /\ plan_locks = {0}
    /\ result = NoResult
    /\ \E plan \in StartingPlans, cs \in [PlanThreads -> PlanCallArgs] :
          /\ plans = (0 :> plan)
          /\ plan_calls = [lock |-> [owner |-> 0, count |-> 0],
                           initial |-> plan,
                           calls |-> [t \in PlanThreads |-> NewPlanCall(cs[t])]]

PlanConcNext ==
    \/ \E t \in PlanThreads : PlanCallCheck(t)
    \/ \E t \in PlanThreads : PlanCallAcquire(t)
    \/ \E t \in PlanThreads : PlanCallBody(t)
    \/ \E t \in PlanThreads : PlanCallMove(t)
    \/ \E t \in PlanThreads : PlanCallMark(t)
    \/ \E t \in PlanThreads : PlanCallRelease(t)

PlanConcSpec == PlanConcInit /\ [][PlanConcNext]_vars

\* every thread has returned from its call
AllPlanCallsDone == \A t \in PlanThreads : plan_calls.calls[t].pc = "done"

\* the call thread t made
CallOf(t) ==
    [op |-> plan_calls.calls[t].op, feature_name |-> plan_calls.calls[t].feature_name,
     status |-> plan_calls.calls[t].status, step_index |-> plan_calls.calls[t].step_index]

\* the orders in which the threads' calls can be run one after the other
SequentialOrders ==
    {order \in [1..NumPlanThreads -> PlanThreads] :
        \A i, j \in 1..NumPlanThreads : order[i] = order[j] => i = j}

\* the plan after the first k calls of the order have run one after the other
RECURSIVE PlanAfter(_, _)
PlanAfter(order, k) ==
    IF k = 0 THEN plan_calls.initial
    ELSE SequentialCall(PlanAfter(order, k - 1), CallOf(order[k])).plan

\* the plan and the results are those of the calls run in that order
EqualsSequentialOrder(order) ==
    /\ plans[0] = PlanAfter(order, NumPlanThreads)
    /\ \A k \in 1..NumPlanThreads :
          plan_calls.calls[order[k]].result =
              SequentialCall(PlanAfter(order, k - 1), CallOf(order[k])).result

\* every thread called start_feature for the same feature, which could start
SameFeatureStartedTwice ==
    /\ \A t \in PlanThreads : plan_calls.calls[t].op = "start_feature"
    /\ \A t, u \in PlanThreads :
          plan_calls.calls[t].feature_name = plan_calls.calls[u].feature_name
    /\ StartFeatureError(plan_calls.initial, plan_calls.calls[1].feature_name) = ""

\* C27: when the concurrent calls on the plan have returned, the plan and the
\* results are those of the calls run in some sequential order; two concurrent
\* start_feature calls for one feature that could start yield exactly one
\* success and the feature is in active_features once.
C27_OperationsAtomic ==
    AllPlanCallsDone =>
        /\ \E order \in SequentialOrders : EqualsSequentialOrder(order)
        /\ (SameFeatureStartedTwice =>
               /\ Cardinality({t \in PlanThreads : plan_calls.calls[t].result.success}) = 1
               /\ Count(plans[0].active_features, plan_calls.calls[1].feature_name) = 1)

\* two concurrent start_feature calls for one startable feature have returned,
\* one with success and one with "already active"
C27_Witness ==
    /\ AllPlanCallsDone
    /\ SameFeatureStartedTwice
    /\ \E t \in PlanThreads : plan_calls.calls[t].result.success
    /\ \E t \in PlanThreads : plan_calls.calls[t].result.error = "already_active"

\* thread t is in update_step_status, past its checks and its nested call,
\* about to leave the with block: nothing else has touched the plan since
AboutToReturnFromStepUpdate(t) ==
    /\ plan_calls.calls[t].op = "update_step_status"
    /\ plan_calls.calls[t].pc = "release"
    /\ ~plan_calls.calls[t].nested
    /\ plan_calls.calls[t].result.success

\* C28: an update_step_status call that leaves every step of a feature
\* completed and found the feature not yet completed has, before it returns,
\* the feature in completed_features with status completed and completed_at
\* set, and the plan completed if every feature is completed; and the nested
\* acquisition of the plan's reentrant lock is never blocked.
C28_StepCompletionAutoCompletes ==
    \A t \in PlanThreads :
        /\ ((/\ AboutToReturnFromStepUpdate(t)
             /\ AllStepsCompleted(plans[0].features[plan_calls.calls[t].feature_name])
             /\ plan_calls.calls[t].feature_status # "completed") =>
               LET f == plan_calls.calls[t].feature_name
               IN  /\ plans[0].features[f].status = "completed"
                   /\ plans[0].features[f].completed_at
                   /\ InList(plans[0].completed_features, f)
                   /\ (AllFeaturesCompleted(plans[0]) => plans[0].status = "completed"))
        /\ (plan_calls.calls[t].nested /\ plan_calls.calls[t].pc = "acquire" =>
               /\ plan_calls.lock.owner = t
               /\ CanAcquire(plan_calls.lock, t))

\* an update_step_status call has completed the last step of the last
\* feature, which was not completed, and the plan is completed
C28_Witness ==
    \E t \in PlanThreads :
        /\ AboutToReturnFromStepUpdate(t)
        /\ plan_calls.calls[t].feature_status = "in_progress"
        /\ AllStepsCompleted(plans[0].features[plan_calls.calls[t].feature_name])
        /\ plan_calls.lock = [owner |-> t, count |-> 1]
        /\ plans[0].status = "completed"
        /\ plan_calls.initial.status # "completed"

\* feature g is reached from feature f along at most k dependency edges
RECURSIVE DependsWithin(_, _, _, _)
DependsWithin(features, f, g, k) ==
    /\ k > 0
    /\ \/ g \in features[f].dependencies
       \/ \E d \in features[f].dependencies \cap DOMAIN features :
             DependsWithin(features, d, g, k - 1)

\* feature f lies on a dependency cycle
OnDependencyCycle(features, f) ==
    DependsWithin(features, f, f, Cardinality(DOMAIN features))

\* C29: a feature that lies on a dependency cycle never leaves the pending
\* list: it keeps status not_started and, once the implementation record
\* exists, it is in pending_features and in neither other list.
C29_CyclicFeaturesStayPending ==
    \A f \in DOMAIN project.features :
        OnDependencyCycle(project.features, f) =>
            /\ project.features[f].status = "not_started"
            /\ (active_implementations # NoImplementation =>
                   /\ InList(active_implementations.pending_features, f)
                   /\ ~InList(active_implementations.active_features, f)
                   /\ ~InList(active_implementations.completed_features, f))

\* ---------------------------------------------------------------------------
\* PlanningManager.create_plan (planning_manager.py lines 37-106) on a manager
\* that starts with no plan, together with start_feature and complete_feature
\* so that a stored plan can make progress before the next create_plan.
\* ---------------------------------------------------------------------------

\* create_plan with a plan text naming n features; raised says whether the
\* planning agent or the parsing of the text raised, which the except clause
\* of line 104 turns into an error result. The id is "plan_<int(time.time())>"
\* (line 49), the plan is stored under it (line 98) and so is a new lock
\* (line 101).
CreatePlan(n, deps, raised) ==
    /\ IF raised
       THEN /\ result' = Err("create_plan", 0, "exception")
            /\ UNCHANGED <<plans, plan_locks>>
       ELSE /\ plans' = [plan_id \in DOMAIN plans \cup {now} |->
                            IF plan_id = now
                            THEN NewPlan(ExtractFeatures(n, deps), now)
                            ELSE plans[plan_id]]
            /\ plan_locks' = plan_locks \cup {now}
            /\ result' = Ok("create_plan", 0)
    /\ UNCHANGED <<now, projVars, callVars, poolVars>>
    /\ UNCHANGED otherVars

\* the PlanningManager as __init__ leaves it
CreateInit ==
    /\ ThreadsIdle
    /\ PlanIdle
    /\ ProjIdle
    /\ CallIdle
    /\ PoolIdle
    /\ WaitIdle
    /\ DbIdle
    /\ FnIdle
    /\ PlanCallIdle

CreateNext ==
    \/ \E n \in 0..NumPlanFeatures, deps \in DependencyChoices, raised \in BOOLEAN :
          CreatePlan(n, deps, raised)
    \/ \E p \in PlanIdArgs, f \in FeatureArgs : StartFeature(p, f)
    \/ \E p \in PlanIdArgs, f \in FeatureArgs : CompleteFeature(p, f)
    \/ Tick

CreateSpec == CreateInit /\ [][CreateNext]_vars

\* C30: a successful create_plan call stores its plan under an id no existing
\* plan has, and leaves every existing plan and its lock as they were.
C30_CreatePlanNeverOverwrites ==
    [][(\E n \in 0..NumPlanFeatures, deps \in DependencyChoices :
            CreatePlan(n, deps, FALSE)) =>
          /\ now \notin DOMAIN plans
          /\ \A plan_id \in DOMAIN plans :
                /\ plan_id \in DOMAIN plans'
                /\ plans'[plan_id] = plans[plan_id]
                /\ plan_id \in plan_locks']_vars

\* ---------------------------------------------------------------------------
\* create_plan running at once with operations on plans (planning_manager.py
\* lines 37-106 and 190-427). Each thread makes one call. create_plan stores
\* the plan (line 98) and, in a later statement, the lock (line 101); an
\* operation checks the plan id (line 200 or 226), looks its lock up and
\* enters "with" (line 203 or 229), runs its body and leaves the block.
\* plan_threads holds the RLock objects of plan_locks (serial: which object,
\* owner: the thread that holds it, 0 for nobody), the count of lock objects
\* made, and the locals of each thread.
\* ---------------------------------------------------------------------------
\* the feature the calls name
ThreadFeature == 1

\* the calls on the features of a plan: start_feature, complete_feature,
\* update_feature_status(.., "completed") and update_step_status(.., 0, "completed")
ThreadFeatureCalls ==
    {c \in PlanCallArgs : /\ c.feature_name = ThreadFeature
                          /\ c.status \in {"none", "completed"}
                          /\ c.step_index = 0}

ThreadCallArgs ==
    {[op |-> "create_plan", plan_id |-> 0, n |-> n, raised |-> r,
      feature_name |-> 0, status |-> "none", step_index |-> 0] :
        n \in 1..NumPlanFeatures, r \in BOOLEAN}
    \cup {[op |-> "update_plan", plan_id |-> p, n |-> 0, raised |-> FALSE,
           feature_name |-> 0, status |-> "none", step_index |-> 0] :
        p \in PlanIdArgs}
    \cup {[op |-> c.op, plan_id |-> p, n |-> 0, raised |-> FALSE,
           feature_name |-> c.feature_name, status |-> c.status,
           step_index |-> c.step_index] :
        p \in PlanIdArgs, c \in ThreadFeatureCalls}

\* the locals of a thread about to make call c; held is the lock object the
\* thread is inside, 0 for none
NewThreadCall(c) ==
    [pc |-> "call", op |-> c.op, plan_id |-> c.plan_id, n |-> c.n,
     raised |-> c.raised, feature_name |-> c.feature_name, status |-> c.status,
     step_index |-> c.step_index, held |-> 0, result |-> NoResult]

\* threading.RLock()
NewLock(serial) == [serial |-> serial, owner |-> 0]

\* one lock for all plans: held whenever any lock of the map is held
LockOfAnyPlan(locks, plan_id) ==
    IF \E q \in DOMAIN locks : locks[q].owner # 0
    THEN locks[CHOOSE q \in DOMAIN locks : locks[q].owner # 0]
    ELSE locks[plan_id]

\* self.plan_locks[plan_id]
LockOf(locks, plan_id) == locks[plan_id]

\* create_plan lines 49-98: the plan is built and stored under
\* "plan_<int(time.time())>"; an exception on the way is caught (lines 104-106)
ThreadCreateStore(t) ==
    /\ plan_threads.calls[t].pc = "call"
    /\ plan_threads.calls[t].op = "create_plan"
    /\ LET c == plan_threads.calls[t]
       IN  IF c.raised
           THEN /\ plan_threads' = [plan_threads EXCEPT
                                      !.calls[t].pc = "done",
                                      !.calls[t].result = Err("create_plan", 0, "exception")]
                /\ UNCHANGED plans
           ELSE /\ plans' = [plan_id \in DOMAIN plans \cup {now} |->
                               IF plan_id = now
                               THEN NewPlan(ExtractFeatures(c.n, [f \in PlanFeatureNames |-> {}]), now)
                               ELSE plans[plan_id]]
                /\ plan_threads' = [plan_threads EXCEPT
                                      !.calls[t].pc = "lock",
                                      !.calls[t].plan_id = now]
    /\ UNCHANGED <<now, plan_locks, result, projVars, callVars, poolVars>>
    /\ UNCHANGED <<waitVars, dbVars, fnVars, planCallVars>>
    /\ UNCHANGED <<db_threads, slack_threads, concurrent_status>>

\* create_plan lines 101-103: a new RLock is stored for the id, the plan returned
ThreadCreateLock(t) ==
    /\ plan_threads.calls[t].pc = "lock"
    /\ LET p == plan_threads.calls[t].plan_id
           serial == plan_threads.serial + 1
       IN  /\ plan_locks' = plan_locks \cup {p}
           /\ plan_threads' = [plan_threads EXCEPT
                 !.locks = [q \in plan_locks \cup {p} |->
                               IF q = p THEN NewLock(serial) ELSE plan_threads.locks[q]],
                 !.serial = serial,
                 !.calls[t].pc = "done",
                 !.calls[t].result = Ok("create_plan", 0)]
    /\ UNCHANGED <<now, plans, result, projVars, callVars, poolVars>>
    /\ UNCHANGED <<waitVars, dbVars, fnVars, planCallVars>>
    /\ UNCHANGED <<db_threads, slack_threads, concurrent_status>>

\* "if plan_id not in self.plans: return error" (lines 200-201, 226-227)
ThreadCheck(t) ==
    /\ plan_threads.calls[t].pc = "call"
    /\ plan_threads.calls[t].op # "create_plan"
    /\ plan_threads' =
          IF plan_threads.calls[t].plan_id \in DOMAIN plans
          THEN [plan_threads EXCEPT !.calls[t].pc = "acquire"]
          ELSE [plan_threads EXCEPT
                  !.calls[t].pc = "done",
                  !.calls[t].result = Err(plan_threads.calls[t].op, 0, "plan_not_found")]
    /\ UNCHANGED <<now, planVars, projVars, callVars, poolVars>>
    /\ UNCHANGED <<waitVars, dbVars, fnVars, planCallVars>>
    /\ UNCHANGED <<db_threads, slack_threads, concurrent_status>>

\* "with self.plan_locks[plan_id]:" (lines 203, 229): the lookup raises
\* KeyError when the id has no lock, and the call ends with it; otherwise the
\* thread enters once the lock object lets it
ThreadAcquire(t) ==
    /\ plan_threads.calls[t].pc = "acquire"
    /\ LET p == plan_threads.calls[t].plan_id
       IN  IF p \notin plan_locks
           THEN plan_threads' = [plan_threads EXCEPT
                                   !.calls[t].pc = "done",
                                   !.calls[t].result = Err(plan_threads.calls[t].op, 0, "KeyError")]
           ELSE /\ CanAcquire(LockOf(plan_threads.locks, p), t)
                /\ plan_threads' = [plan_threads EXCEPT
                                      !.locks[p].owner = t,
                                      !.calls[t].held = plan_threads.locks[p].serial,
                                      !.calls[t].pc = "body"]
    /\ UNCHANGED <<now, planVars, projVars, callVars, poolVars>>
    /\ UNCHANGED <<waitVars, dbVars, fnVars, planCallVars>>
    /\ UNCHANGED <<db_threads, slack_threads, concurrent_status>>

\* the body of the with block, up to its return: update_plan lines 204-214
\* (no keyword arguments), start_feature lines 230-264, complete_feature
\* lines 280-308, update_feature_status lines 325-373, update_step_status
\* lines 393-427
ThreadBody(t) ==
    /\ plan_threads.calls[t].pc = "body"
    /\ LET c == plan_threads.calls[t]
           after == IF c.op = "update_plan"
                    THEN [plan |-> [plans[c.plan_id] EXCEPT !.updated_at = now],
                          result |-> Ok(c.op, 0)]
                    ELSE SequentialCall(plans[c.plan_id], c)
       IN  /\ plans' = [plans EXCEPT ![c.plan_id] = after.plan]
           /\ plan_threads' = [plan_threads EXCEPT
                                 !.calls[t].pc = "release",
                                 !.calls[t].result = after.result]
    /\ UNCHANGED <<now, plan_locks, result, projVars, callVars, poolVars>>
    /\ UNCHANGED <<waitVars, dbVars, fnVars, planCallVars>>
    /\ UNCHANGED <<db_threads, slack_threads, concurrent_status>>

\* the with block is left: the lock object the thread entered is released,
\* whether or not plan_locks still holds that object
ThreadRelease(t) ==
    /\ plan_threads.calls[t].pc = "release"
    /\ LET c == plan_threads.calls[t]
       IN  plan_threads' = [plan_threads EXCEPT
              !.locks = [q \in DOMAIN plan_threads.locks |->
                            IF q = c.plan_id /\ plan_threads.locks[q].serial = c.held
                            THEN [plan_threads.locks[q] EXCEPT !.owner = 0]
                            ELSE plan_threads.locks[q]],
              !.calls[t].held = 0,
              !.calls[t].pc = "done"]
    /\ UNCHANGED <<now, planVars, projVars, callVars, poolVars>>
    /\ UNCHANGED <<waitVars, dbVars, fnVars, planCallVars>>
    /\ UNCHANGED <<db_threads, slack_threads, concurrent_status>>

\* the clock passes a second while the threads run
ThreadTick ==
    /\ now < MaxClock
    /\ now' = now + 1
    /\ UNCHANGED <<planVars, projVars, callVars, poolVars>>
    /\ UNCHANGED otherVars

\* a PlanningManager as __init__ leaves it, or holding the plans created at
\* seconds 0 to k - 1, each with the lock create_plan made for it, and the
\* threads about to make their calls
PlanThreadsInit ==
    /\ DbThreadsIdle
    /\ SlackThreadsIdle
    /\ ConcurrentPlanningIdle
    /\ ProjIdle
    /\ CallIdle
    /\ PoolIdle
    /\ WaitIdle
    /\ DbIdle
    /\ FnIdle
    /\ PlanCallIdle
    /\ result = NoResult
    /\ \E k \in 0..(MaxClock + 1), cs \in [PlanThreads -> ThreadCallArgs] :
          /\ now = IF k = 0 THEN 0 ELSE k - 1
          /\ plans = [q \in 0..(k - 1) |->
                         NewPlan(ExtractFeatures(1, [f \in PlanFeatureNames |-> {}]), q)]
          /\ plan_locks = 0..(k - 1)
          /\ plan_threads = [locks |-> [q \in 0..(k - 1) |-> NewLock(q + 1)],
                             serial |-> k,
                             calls |-> [t \in PlanThreads |-> NewThreadCall(cs[t])]]

PlanThreadsNext ==
    \/ \E t \in PlanThreads : ThreadCreateStore(t)
    \/ \E t \in PlanThreads : ThreadCreateLock(t)
    \/ \E t \in PlanThreads : ThreadCheck(t)
    \/ \E t \in PlanThreads : ThreadAcquire(t)
    \/ \E t \in PlanThreads : ThreadBody(t)
    \/ \E t \in PlanThreads : ThreadRelease(t)
    \/ ThreadTick

PlanThreadsSpec == PlanThreadsInit /\ [][PlanThreadsNext]_vars

\* C31: in every state, the states between two statements of a running
\* create_plan included, every plan id in plans has a lock in plan_locks, and
\* no operation ends with the KeyError of a missing lock.
C31_LockForEveryPlan ==
    /\ \A p \in DOMAIN plans : p \in plan_locks
    /\ \A t \in PlanThreads : plan_threads.calls[t].result.error # "KeyError"

\* C32: in every plan state, every feature in active_features or
\* completed_features has started_at set, and a feature has completed_at set
\* exactly when it is in completed_features.
C32_TimestampsFollowLifecycle ==
    \A p \in DOMAIN plans : \A f \in DOMAIN plans[p].features :
        /\ (InList(plans[p].active_features, f) \/ InList(plans[p].completed_features, f))
              => plans[p].features[f].started_at
        /\ plans[p].features[f].completed_at <=> InList(plans[p].completed_features, f)

\* ---------------------------------------------------------------------------
\* A ThreadPool constructed with a max_threads argument (thread_pool.py lines
\* 10-28) and then used: the constructor starts one worker per counted
\* thread, and the pool runs as in PoolNext.
\* ---------------------------------------------------------------------------
\* max_threads arguments: below the lower limit, at it, and above it
PoolSizeArgs == 0..NumWorkers

\* one worker too many: "for i in range(self.max_threads + 1)"
PoolThreadsOneMore(max_threads) == 1..(ClampMaxThreads(max_threads) + 1)

\* lines 23-26: "for i in range(self.max_threads)" starts the worker threads
PoolThreads(max_threads) == 1..ClampMaxThreads(max_threads)

\* the pool as __init__(max_threads) leaves it, its workers started
SizedPoolInit ==
    /\ ThreadsIdle
    /\ DbIdle
    /\ PlanCallIdle
    /\ wait_call = NoWait
    /\ PlanIdle
    /\ ProjIdle
    /\ CallIdle
    /\ args \in {[max_threads |-> m] : m \in PoolSizeArgs}
    /\ returned = <<>>
    /\ running = TRUE
    /\ task_queue = <<>>
    /\ unfinished_tasks = 0
    /\ workers = [w \in PoolThreads(args.max_threads) |-> NewWorker]
    /\ submit_calls = [t \in Tasks |-> "idle"]
    /\ shutdown_call = NoShutdown
    /\ executed_tasks = {}
    /\ failed_tasks = {}
    /\ discarded_tasks = {}
    /\ pool_order = NoOrder

SizedPoolSpec == SizedPoolInit /\ [][PoolNext]_vars

\* the place of task t in the order of the puts
PutIndex(t) == FirstIndex(pool_order.put, t)

\* the tasks a worker has taken and not yet called
TakenNotCalled ==
    {workers[w].task : w \in {v \in DOMAIN workers : workers[v].pc = "run"}}

\* C33: workers take tasks off the queue in the order the tasks were put: a
\* task taken later was put later; with a single worker the tasks are called
\* in that order too; and every task a worker took is called exactly once
\* (it is being held for its call, or it has been called once).
C33_FifoOrder ==
    /\ \A i, j \in DOMAIN pool_order.got :
          i < j => PutIndex(pool_order.got[i]) < PutIndex(pool_order.got[j])
    /\ Cardinality(DOMAIN workers) = 1 =>
          \A i, j \in DOMAIN pool_order.ran :
              i < j => PutIndex(pool_order.ran[i]) < PutIndex(pool_order.ran[j])
    /\ \A t \in Tasks :
          /\ Count(pool_order.got, t) <= 1
          /\ Count(pool_order.ran, t) =
                (IF InList(pool_order.got, t) /\ t \notin TakenNotCalled THEN 1 ELSE 0)

\* a pool with a single worker has called two tasks, the one put first first
C33_Witness ==
    /\ Cardinality(DOMAIN workers) = 1
    /\ pool_order.put = <<2, 1>>
    /\ pool_order.ran = <<2, 1>>

\* the tasks taken off the queue by workers and not yet marked done, by the
\* queue's own counters
TasksInExecution == unfinished_tasks - Len(task_queue)

\* C34 (bound): at every instant at most N tasks are in execution, N being
\* the worker count min(max(max_threads, 1), 20); no task is held by two
\* workers; and submit is never made to wait: each of its two steps can be
\* taken in whatever state the pool is in.
C34_BoundedExecution ==
    /\ Cardinality(DOMAIN workers) = Min(Max(args.max_threads, 1), 20)
    /\ TasksInExecution <= Min(Max(args.max_threads, 1), 20)
    /\ Cardinality({w \in DOMAIN workers : workers[w].pc \in {"run", "task_done"}})
          <= Min(Max(args.max_threads, 1), 20)
    /\ \A v, w \in DOMAIN workers :
          (/\ v # w
           /\ workers[v].pc \in {"run", "task_done"}
           /\ workers[w].pc \in {"run", "task_done"})
              => workers[v].task # workers[w].task
    /\ \A t \in Tasks :
          /\ submit_calls[t] = "idle" => ENABLED SubmitCheck(t)
          /\ submit_calls[t] = "checked" => ENABLED SubmitPut(t)

\* C34 (ownership): a worker that holds a task holds that task, and no
\* other, until it has marked it done.
C34_WorkerOwnsOneTask ==
    [][\A w \in DOMAIN workers :
          workers[w].pc \in {"run", "task_done"}
             => \/ workers'[w].task = workers[w].task
                \/ workers'[w] = NewWorker]_vars

\* C34: bounded execution, both parts
C34_BoundedExecutionAndOwnership ==
    []C34_BoundedExecution /\ C34_WorkerOwnsOneTask

\* a pool of one worker holds a task in execution while a second task waits
\* in the queue and a submit has returned
C34_Witness ==
    /\ Cardinality(DOMAIN workers) = 1
    /\ \E w \in DOMAIN workers : workers[w].pc = "run"
    /\ Len(task_queue) = 1
    /\ TasksInExecution = 1

\* the thread took a step of its call in this transition
ThreadStepped(t) == plan_threads'.calls[t] # plan_threads.calls[t]

\* the plan the thread's call is on, once the call knows it
PlanOfCall(c) == c.plan_id

\* C35 (frame): a step of an operation on plan P leaves every other plan Q as
\* it was: features, lists, status and updated_at. A plan changes only in a
\* step of a call whose plan id is that plan's.
C35_OtherPlansUnchanged ==
    [][\A q \in DOMAIN plans :
          (q \notin DOMAIN plans' \/ plans'[q] # plans[q])
             => \E t \in PlanThreads :
                   /\ ThreadStepped(t)
                   /\ PlanOfCall(plan_threads'.calls[t]) = q]_vars

\* C35 (locks): a call on plan P that has reached its "with" enters as soon
\* as the lock of P is free or its own, whoever holds the locks of other plans.
C35_NoWaitForOtherPlans ==
    \A t \in PlanThreads :
        (/\ plan_threads.calls[t].pc = "acquire"
         /\ plan_threads.calls[t].plan_id \in plan_locks
         /\ plan_threads.locks[plan_threads.calls[t].plan_id].owner \in {0, t})
            => ENABLED ThreadAcquire(t)

DbThreads == DbProjectIds

DbOps == {"save", "delete"}

\* the locals of thread t about to make its call
NewDbCall(op) == [pc |-> "call", op |-> op, data |-> <<>>, returned |-> FALSE]

\* lines 105-112 and 144-149: the file is read with json.load and the local
\* dict changed; reading a file that another thread has just emptied raises,
\* and the call returns False
DbThreadRead(t) ==
    /\ db_threads[t].pc = "call"
    /\ db_threads' =
          IF ~db_file.readable
          THEN [db_threads EXCEPT ![t].pc = "done", ![t].returned = FALSE]
          ELSE IF db_threads[t].op = "save"
          THEN [db_threads EXCEPT
                  ![t].pc = "open",
                  ![t].data = DictPut(db_file.data, t, ToDict(Stamped(NewDbProject(t, 0))))]
          ELSE IF t \in DOMAIN db_file.data
          THEN [db_threads EXCEPT ![t].pc = "open", ![t].data = DictDel(db_file.data, t)]
          ELSE [db_threads EXCEPT ![t].pc = "done", ![t].returned = FALSE]
    /\ UNCHANGED <<now, planVars, projVars, callVars, poolVars>>
    /\ UNCHANGED <<waitVars, dbVars, fnVars, planCallVars>>
    /\ UNCHANGED <<plan_threads, slack_threads, concurrent_status>>

\* _write_database line 96: open(self.db_file, 'w') empties the file
DbThreadOpen(t) ==
    /\ db_threads[t].pc = "open"
    /\ db_file' = [readable |-> FALSE, data |-> <<>>]
    /\ db_threads' = [db_threads EXCEPT ![t].pc = "dump"]
    /\ UNCHANGED <<db_projects, db_result>>
    /\ UNCHANGED <<now, planVars, projVars, callVars, poolVars>>
    /\ UNCHANGED <<waitVars, fnVars, planCallVars>>
    /\ UNCHANGED <<plan_threads, slack_threads, concurrent_status>>

\* _write_database line 97: json.dump(data, f) writes the local dict; the file
\* is whole again when the with block closes it
DbThreadDump(t) ==
    /\ db_threads[t].pc = "dump"
    /\ db_file' = [readable |-> TRUE, data |-> db_threads[t].data]
    /\ db_threads' = [db_threads EXCEPT ![t].pc = "memory"]
    /\ UNCHANGED <<db_projects, db_result>>
    /\ UNCHANGED <<now, planVars, projVars, callVars, poolVars>>
    /\ UNCHANGED <<waitVars, fnVars, planCallVars>>
    /\ UNCHANGED <<plan_threads, slack_threads, concurrent_status>>

\* lines 117-120 and 154-158: self.projects is updated and True returned
DbThreadMemory(t) ==
    /\ db_threads[t].pc = "memory"
    /\ db_projects' = IF db_threads[t].op = "save"
                      THEN DictPut(db_projects, t, Stamped(NewDbProject(t, 0)))
                      ELSE DictDel(db_projects, t)
    /\ db_threads' = [db_threads EXCEPT ![t].pc = "done", ![t].returned = TRUE]
    /\ UNCHANGED <<db_file, db_result>>
    /\ UNCHANGED <<now, planVars, projVars, callVars, poolVars>>
    /\ UNCHANGED <<waitVars, fnVars, planCallVars>>
    /\ UNCHANGED <<plan_threads, slack_threads, concurrent_status>>

\* a database that holds any of the projects, saved earlier one call at a
\* time, and the threads about to make their calls
DbThreadsInit ==
    /\ PlanThreadsIdle
    /\ SlackThreadsIdle
    /\ ConcurrentPlanningIdle
    /\ PlanIdle
    /\ ProjIdle
    /\ CallIdle
    /\ PoolIdle
    /\ WaitIdle
    /\ FnIdle
    /\ PlanCallIdle
    /\ db_result = [op |-> "init", returned |-> TRUE, id |-> NoId,
                    read_failed |-> FALSE, write_failed |-> FALSE]
    /\ \E held \in SUBSET DbProjectIds, ops \in [DbThreads -> DbOps] :
          /\ db_projects = [i \in held |-> NewDbProject(i, 0)]
          /\ db_file = [readable |-> TRUE,
                        data |-> [i \in held |-> ToDict(NewDbProject(i, 0))]]
          /\ db_threads = [t \in DbThreads |-> NewDbCall(ops[t])]

DbThreadsNext ==
    \/ \E t \in DbThreads : DbThreadRead(t)
    \/ \E t \in DbThreads : DbThreadOpen(t)
    \/ \E t \in DbThreads : DbThreadDump(t)
    \/ \E t \in DbThreads : DbThreadMemory(t)

DbThreadsSpec == DbThreadsInit /\ [][DbThreadsNext]_vars

\* every thread has returned from its call
AllDbCallsDone == \A t \in DbThreads : db_threads[t].pc = "done"

\* C36: whenever all save_project and delete_project calls, made by
\* different threads on different projects, have returned, the file holds
\* the record of every project whose save returned True and no record of a
\* project whose delete returned True.
C36_NoLostUpdate ==
    AllDbCallsDone =>
        /\ db_file.readable
        /\ \A t \in DbThreads :
              /\ (db_threads[t].op = "save" /\ db_threads[t].returned)
                    => t \in DOMAIN db_file.data
              /\ (db_threads[t].op = "delete" /\ db_threads[t].returned)
                    => t \notin DOMAIN db_file.data

\* ---------------------------------------------------------------------------
\* Slack messages handled by several threads at once (assistant_agent.py
\* lines 62-64, 382-436). A thread is inside process_slack_message(message),
\* or inside the pass of monitor_slack_threads over a message of a thread it
\* reads; both skip a message whose ts is in self.processed_threads, add the
\* ts under self.thread_lock, and then handle the message: the command
\* handler, or the submission of handle_pr_notification. slack_threads holds
\* processed_threads, the owner of thread_lock (0: nobody), how often each
\* message was handled, and the locals of each thread.
\* ---------------------------------------------------------------------------
NumSlackThreads == 2
NumMessages == 2

SlackThreads == 1..NumSlackThreads

\* the ts of the messages
MessageTs == 1..NumMessages

SlackCallers == {"process_slack_message", "monitor_slack_threads"}

\* the locals of a thread that is about to look at the message with this ts
NewSlackCall(caller, ts) == [pc |-> "check", caller |-> caller, ts |-> ts]

\* lines 427-428 and 388-389: "if ts in self.processed_threads: return / continue"
SlackCheck(t) ==
    /\ slack_threads.calls[t].pc = "check"
    /\ slack_threads' = [slack_threads EXCEPT
          !.calls[t].pc = IF slack_threads.calls[t].ts \in slack_threads.processed_threads
                          THEN "skipped" ELSE "lock"]
    /\ UNCHANGED <<now, planVars, projVars, callVars, poolVars>>
    /\ UNCHANGED <<waitVars, dbVars, fnVars, planCallVars>>
    /\ UNCHANGED <<plan_threads, db_threads, concurrent_status>>

\* lines 431 and 392: "with self.thread_lock:" entered
SlackLock(t) ==
    /\ slack_threads.calls[t].pc = "lock"
    /\ slack_threads.thread_lock = 0
    /\ slack_threads' = [slack_threads EXCEPT !.thread_lock = t, !.calls[t].pc = "add"]
    /\ UNCHANGED <<now, planVars, projVars, callVars, poolVars>>
    /\ UNCHANGED <<waitVars, dbVars, fnVars, planCallVars>>
    /\ UNCHANGED <<plan_threads, db_threads, concurrent_status>>

\* lines 432 and 393: self.processed_threads.add(ts), and the lock released
SlackAdd(t) ==
    /\ slack_threads.calls[t].pc = "add"
    /\ slack_threads' = [slack_threads EXCEPT
          !.processed_threads = @ \cup {slack_threads.calls[t].ts},
          !.thread_lock = 0,
          !.calls[t].pc = "handle"]
    /\ UNCHANGED <<now, planVars, projVars, callVars, poolVars>>
    /\ UNCHANGED <<waitVars, dbVars, fnVars, planCallVars>>
    /\ UNCHANGED <<plan_threads, db_threads, concurrent_status>>

\* lines 435-444: the command handler runs; lines 396-407: the PR
\* notification of the message is submitted to the pool
SlackHandle(t) ==
    /\ slack_threads.calls[t].pc = "handle"
    /\ slack_threads' = [slack_threads EXCEPT
          !.handled[slack_threads.calls[t].ts] = @ + 1,
          !.calls[t].pc = "done"]
    /\ UNCHANGED <<now, planVars, projVars, callVars, poolVars>>
    /\ UNCHANGED <<waitVars, dbVars, fnVars, planCallVars>>
    /\ UNCHANGED <<plan_threads, db_threads, concurrent_status>>

\* an agent that has processed no message or some, each once, and the
\* threads about to look at a message each
SlackInit ==
    /\ PlanThreadsIdle
    /\ DbThreadsIdle
    /\ ConcurrentPlanningIdle
    /\ PlanIdle
    /\ ProjIdle
    /\ CallIdle
    /\ PoolIdle
    /\ WaitIdle
    /\ DbIdle
    /\ FnIdle
    /\ PlanCallIdle
    /\ \E seen \in SUBSET MessageTs,
          callers \in [SlackThreads -> SlackCallers],
          ts \in [SlackThreads -> MessageTs] :
          slack_threads = [processed_threads |-> seen,
                           thread_lock |-> 0,
                           handled |-> [m \in MessageTs |-> IF m \in seen THEN 1 ELSE 0],
                           calls |-> [t \in SlackThreads |-> NewSlackCall(callers[t], ts[t])]]

SlackNext ==
    \/ \E t \in SlackThreads : SlackCheck(t)
    \/ \E t \in SlackThreads : SlackLock(t)
    \/ \E t \in SlackThreads : SlackAdd(t)
    \/ \E t \in SlackThreads : SlackHandle(t)

SlackSpec == SlackInit /\ [][SlackNext]_vars

\* C37: whatever the interleaving of the threads that see the same message
\* ts, the handling of that message (command handler or PR-notification
\* submission) runs at most once.
C37_MessageHandledAtMostOnce ==
    \A m \in MessageTs : slack_threads.handled[m] <= 1

\* ---------------------------------------------------------------------------
\* handle_concurrent_planning (planning_manager.py lines 476-556): the call
\* builds the status dict, starts one thread per entry of project_ids and
\* returns; thread i runs _plan_project_thread(project_ids[i], status). Each
\* "with threading.RLock():" of the thread makes a lock of its own, which no
\* other thread ever sees, so the blocks exclude nobody and a thread can be
\* scheduled between any two operations on the shared dict; the counter
\* update "+= 1" is a read followed by a write. concurrent_status holds the
\* dict, the list the call was given, how many threads it has started, and
\* for each thread its position and the counter value it has read.
\* ---------------------------------------------------------------------------
NumPlanningProjects == 2

PlanningProjectIds == 1..NumPlanningProjects

\* the project_ids argument: a list of ids, an id twice included
ProjectIdLists ==
    UNION {[1..n -> PlanningProjectIds] : n \in 1..NumPlanningProjects}

\* the locals of a thread that has not been started
NewPlanningThread == [pc |-> "unstarted", read |-> 0, outcome |-> "none"]

\* lines 489-495
NewConcurrentStatus(project_ids) ==
    [total_projects |-> Len(project_ids),
     completed_projects |-> 0,
     active_projects |-> <<>>,
     pending_projects |-> project_ids,
     results |-> <<>>]

\* the id thread i plans
ProjectOfThread(i) == concurrent_status.project_ids[i]

\* lines 500-507: the next thread is created and started; after the last one
\* the call returns (lines 510-514)
StartPlanningThread ==
    /\ concurrent_status.started < Len(concurrent_status.project_ids)
    /\ concurrent_status' = [concurrent_status EXCEPT
          !.started = @ + 1,
          !.threads[concurrent_status.started + 1].pc = "check_pending"]
    /\ UNCHANGED <<now, planVars, projVars, callVars, poolVars>>
    /\ UNCHANGED <<waitVars, dbVars, fnVars, planCallVars>>
    /\ UNCHANGED <<plan_threads, db_threads, slack_threads>>

\* line 526: "if project_id in concurrent_status['pending_projects']"
PlanningCheckPending(i) ==
    /\ i \in DOMAIN concurrent_status.threads
    /\ concurrent_status.threads[i].pc = "check_pending"
    /\ concurrent_status' = [concurrent_status EXCEPT
          !.threads[i].pc =
              IF InList(concurrent_status.status.pending_projects, ProjectOfThread(i))
              THEN "remove_pending" ELSE "append_active"]
    /\ UNCHANGED <<now, planVars, projVars, callVars, poolVars>>
    /\ UNCHANGED <<waitVars, dbVars, fnVars, planCallVars>>
    /\ UNCHANGED <<plan_threads, db_threads, slack_threads>>

\* line 527: pending_projects.remove(project_id); ValueError when the id is
\* no longer there, which the except of line 546 catches
PlanningRemovePending(i) ==
    /\ i \in DOMAIN concurrent_status.threads
    /\ concurrent_status.threads[i].pc = "remove_pending"
    /\ concurrent_status' =
          IF InList(concurrent_status.status.pending_projects, ProjectOfThread(i))
          THEN [concurrent_status EXCEPT
                  !.status.pending_projects = ListRemove(@, ProjectOfThread(i)),
                  !.threads[i].pc = "append_active"]
          ELSE [concurrent_status EXCEPT !.threads[i].pc = "except_check"]
    /\ UNCHANGED <<now, planVars, projVars, callVars, poolVars>>
    /\ UNCHANGED <<waitVars, dbVars, fnVars, planCallVars>>
    /\ UNCHANGED <<plan_threads, db_threads, slack_threads>>

\* line 528: active_projects.append(project_id); then the planning itself,
\* lines 530-535, which touches nothing shared
PlanningAppendActive(i) ==
    /\ i \in DOMAIN concurrent_status.threads
    /\ concurrent_status.threads[i].pc = "append_active"
    /\ concurrent_status' = [concurrent_status EXCEPT
          !.status.active_projects = Append(@, ProjectOfThread(i)),
          !.threads[i].pc = "check_active"]
    /\ UNCHANGED <<now, planVars, projVars, callVars, poolVars>>
    /\ UNCHANGED <<waitVars, dbVars, fnVars, planCallVars>>
    /\ UNCHANGED <<plan_threads, db_threads, slack_threads>>

\* lines 539 and 551: "if project_id in concurrent_status['active_projects']"
PlanningCheckActive(i) ==
    /\ i \in DOMAIN concurrent_status.threads
    /\ concurrent_status.threads[i].pc \in {"check_active", "except_check"}
    /\ LET failed == concurrent_status.threads[i].pc = "except_check"
           found == InList(concurrent_status.status.active_projects, ProjectOfThread(i))
       IN  concurrent_status' = [concurrent_status EXCEPT
              !.threads[i].pc =
                  IF found THEN (IF failed THEN "except_remove" ELSE "remove_active")
                  ELSE (IF failed THEN "except_result" ELSE "read_completed")]
    /\ UNCHANGED <<now, planVars, projVars, callVars, poolVars>>
    /\ UNCHANGED <<waitVars, dbVars, fnVars, planCallVars>>
    /\ UNCHANGED <<plan_threads, db_threads, slack_threads>>

\* lines 540 and 552: active_projects.remove(project_id); ValueError when the
\* id is no longer there: caught at line 546, or, raised inside the except
\* block, ending the thread
PlanningRemoveActive(i) ==
    /\ i \in DOMAIN concurrent_status.threads
    /\ concurrent_status.threads[i].pc \in {"remove_active", "except_remove"}
    /\ LET failed == concurrent_status.threads[i].pc = "except_remove"
           found == InList(concurrent_status.status.active_projects, ProjectOfThread(i))
       IN  concurrent_status' =
              IF found
              THEN [concurrent_status EXCEPT
                      !.status.active_projects = ListRemove(@, ProjectOfThread(i)),
                      !.threads[i].pc = IF failed THEN "except_result" ELSE "read_completed"]
              ELSE IF failed
              THEN [concurrent_status EXCEPT !.threads[i].pc = "done",
                                             !.threads[i].outcome = "raised"]
              ELSE [concurrent_status EXCEPT !.threads[i].pc = "except_check"]
    /\ UNCHANGED <<now, planVars, projVars, callVars, poolVars>>
    /\ UNCHANGED <<waitVars, dbVars, fnVars, planCallVars>>
    /\ UNCHANGED <<plan_threads, db_threads, slack_threads>>

\* line 541, first half: concurrent_status["completed_projects"] is read
PlanningReadCompleted(i) ==
    /\ i \in DOMAIN concurrent_status.threads
    /\ concurrent_status.threads[i].pc = "read_completed"
    /\ concurrent_status' = [concurrent_status EXCEPT
          !.threads[i].read = concurrent_status.status.completed_projects,
          !.threads[i].pc = "write_completed"]
    /\ UNCHANGED <<now, planVars, projVars, callVars, poolVars>>
    /\ UNCHANGED <<waitVars, dbVars, fnVars, planCallVars>>
    /\ UNCHANGED <<plan_threads, db_threads, slack_threads>>

\* line 541, second half: the value read, plus 1, is stored
PlanningWriteCompleted(i) ==
    /\ i \in DOMAIN concurrent_status.threads
    /\ concurrent_status.threads[i].pc = "write_completed"
    /\ concurrent_status' = [concurrent_status EXCEPT
          !.status.completed_projects = concurrent_status.threads[i].read + 1,
          !.threads[i].pc = "result"]
    /\ UNCHANGED <<now, planVars, projVars, callVars, poolVars>>
    /\ UNCHANGED <<waitVars, dbVars, fnVars, planCallVars>>
    /\ UNCHANGED <<plan_threads, db_threads, slack_threads>>

\* lines 542-545 and 553-556: results[project_id] is stored, the thread ends
PlanningStoreResult(i) ==
    /\ i \in DOMAIN concurrent_status.threads
    /\ concurrent_status.threads[i].pc \in {"result", "except_result"}
    /\ LET outcome == IF concurrent_status.threads[i].pc = "result"
                      THEN "completed" ELSE "error"
       IN  concurrent_status' = [concurrent_status EXCEPT
              !.status.results = DictPut(@, ProjectOfThread(i), outcome),
              !.threads[i].pc = "done",
              !.threads[i].outcome = outcome]
    /\ UNCHANGED <<now, planVars, projVars, callVars, poolVars>>
    /\ UNCHANGED <<waitVars, dbVars, fnVars, planCallVars>>
    /\ UNCHANGED <<plan_threads, db_threads, slack_threads>>

\* handle_concurrent_planning(project_ids) has built the status dict and is
\* about to start its threads
PlanningInit ==
    /\ PlanThreadsIdle
    /\ DbThreadsIdle
    /\ SlackThreadsIdle
    /\ PlanIdle
    /\ ProjIdle
    /\ CallIdle
    /\ PoolIdle
    /\ WaitIdle
    /\ DbIdle
    /\ FnIdle
    /\ PlanCallIdle
    /\ \E project_ids \in ProjectIdLists :
          concurrent_status = [project_ids |-> project_ids,
                               started |-> 0,
                               status |-> NewConcurrentStatus(project_ids),
                               threads |-> [i \in DOMAIN project_ids |-> NewPlanningThread]]

PlanningNext ==
    \/ StartPlanningThread
    \/ \E i \in PlanningProjectIds : PlanningCheckPending(i)
    \/ \E i \in PlanningProjectIds : PlanningRemovePending(i)
    \/ \E i \in PlanningProjectIds : PlanningAppendActive(i)
    \/ \E i \in PlanningProjectIds : PlanningCheckActive(i)
    \/ \E i \in PlanningProjectIds : PlanningRemoveActive(i)
    \/ \E i \in PlanningProjectIds : PlanningReadCompleted(i)
    \/ \E i \in PlanningProjectIds : PlanningWriteCompleted(i)
    \/ \E i \in PlanningProjectIds : PlanningStoreResult(i)

PlanningSpec == PlanningInit /\ [][PlanningNext]_vars

\* every thread of the call has been started and has ended
AllPlanningThreadsDone ==
    \A i \in DOMAIN concurrent_status.threads : concurrent_status.threads[i].pc = "done"

\* the entries of project_ids whose thread ended without an error
FinishedWithoutError ==
    {i \in DOMAIN concurrent_status.threads : concurrent_status.threads[i].outcome = "completed"}

\* the project_ids argument names no id twice
DistinctProjectIds ==
    \A i, j \in DOMAIN concurrent_status.project_ids :
        i # j => concurrent_status.project_ids[i] # concurrent_status.project_ids[j]

\* C38: for a call whose project_ids are distinct: once all threads of
\* handle_concurrent_planning have ended, completed_projects is the number of
\* projects planned without error, pending_projects and active_projects are
\* empty and results has one entry per project id; and at every instant no
\* project id is in both pending_projects and active_projects.
C38_BookkeepingExact ==
    DistinctProjectIds =>
        /\ AllPlanningThreadsDone =>
              /\ concurrent_status.status.completed_projects = Cardinality(FinishedWithoutError)
              /\ concurrent_status.status.pending_projects = <<>>
              /\ concurrent_status.status.active_projects = <<>>
              /\ DOMAIN concurrent_status.status.results =
                    {concurrent_status.project_ids[i] : i \in DOMAIN concurrent_status.project_ids}
        /\ \A p \in PlanningProjectIds :
              ~(/\ InList(concurrent_status.status.pending_projects, p)
                /\ InList(concurrent_status.status.active_projects, p))

\* the number of features of the project with this status
FeaturesWithStatus(s) ==
    Cardinality({f \in DOMAIN project.features : project.features[f].status = s})

\* C39: after any sequence of start_implementation and handle_pr_merged
\* calls on a project that has its implementation plan, the counters
\* completed_features, in_progress_features and pending_features are each
\* non-negative, sum to total_features, and equal the numbers of features
\* whose status is completed, in_progress and not_started.
C39_CountersMatchFeatures ==
    /\ project_progress.completed_features >= 0
    /\ project_progress.in_progress_features >= 0
    /\ project_progress.pending_features >= 0
    /\ project_progress.completed_features + project_progress.in_progress_features
          + project_progress.pending_features = project_progress.total_features
    /\ project_progress.completed_features = FeaturesWithStatus("completed")
    /\ project_progress.in_progress_features = FeaturesWithStatus("in_progress")
    /\ project_progress.pending_features = FeaturesWithStatus("not_started")

====
